---- MODULE Spec2Model ----
(***************************************************************************)
(* Berlin-Services MCP server: the catalog cache (services/cache.py,       *)
(* services/api_client.py) and the fill pipeline with its idempotency      *)
(* ledger (services/loop_protector.py, services/form_logic.py,             *)
(* services/file_sync.py).                                                 *)
(*                                                                         *)
(* Optional values are <<>> (Python None) or <<x>>.  JSON values carry a   *)
(* type tag.  ISO timestamps are written by ToIso and read by FromIso.     *)
(***************************************************************************)
EXTENDS Integers, Sequences, FiniteSets, TLC

VARIABLES
    now,               \* datetime.now(), in seconds
    memory_cache,      \* CacheManager._memory_cache
    memory_timestamp,  \* CacheManager._memory_timestamp
    cache_file,        \* content of CACHE_FILE on disk
    fpc,               \* position of each fetch_services_data task
    fcall,             \* arguments and observations of each fetch_services_data task
    clear_result,      \* result of the last clear_cache tool call
    clean,             \* no CacheManager.set has run since the last CacheManager.clear
    reader,            \* what a concurrent reader of CACHE_FILE last read
    hashes,            \* LoopProtector.hashes
    ledger_file,       \* content of DEDUPE_FILE on disk
    forms_cache,       \* the URLs whose document is in FORMS_CACHE_DIR
    filled_forms,      \* the files in FILLED_FORMS_DIR, by name
    manifest,          \* RemoteFileSyncManager.manifest
    ppc,               \* position of each perform_form_filling_logic task
    pcall,             \* arguments, locals and result of each such task
    ncalls,            \* number of perform_form_filling_logic calls so far
    last_fill,         \* the call that returned last, nothing else having run since
    booted,            \* the ledger is as LoopProtector.__init__ loaded it just now
    env,               \* config.py: IS_CLOUD and IS_REMOTE of this process
    tool_call,         \* the delete_filled_form or download_filled_form call that
                       \* has run and whose result the caller has not taken yet
    fn_args,           \* arguments of the function under evaluation
    fn_result          \* its result

cacheVars == <<memory_cache, memory_timestamp, cache_file, fpc, fcall,
               clear_result, clean, reader>>
fillVars == <<hashes, ledger_file, forms_cache, filled_forms, manifest, ppc, pcall,
              ncalls, last_fill, booted>>
toolVars == <<env, tool_call>>
fnVars == <<fn_args, fn_result>>
vars == <<now, cacheVars, fillVars, toolVars, fnVars>>

----------------------------------------------------------------------------
(* Bounds and program constants *)

CACHE_DURATION_SECONDS == 3600
LEDGER_MAX_AGE == 86400
SECONDS_PER_DAY == 86400
DOWNLOAD_TIMEOUT == 15
SAFE_THRESHOLD == 200 * 1024
Slack == 1
MaxCalls == 2

None == <<>>
Some(x) == <<x>>
Get(o) == o[1]

----------------------------------------------------------------------------
(* JSON values *)

List(s) == [t |-> "list", v |-> s]
Str(s) == [t |-> "str", v |-> s]

\* Python truthiness of a JSON value
Truthy(j) ==
    CASE j.t = "list" -> Len(j.v) > 0
      [] j.t = "str" -> j.v # ""
      [] OTHER -> FALSE

\* datetime.isoformat() and datetime.fromisoformat()
ToIso(t) == [t |-> "iso", v |-> t]
FromIso(j) == IF j.t = "iso" THEN Some(j.v) ELSE None

----------------------------------------------------------------------------
(* services/cache.py: CacheManager *)

HasKey(d, k) == k \in DOMAIN d
IsDict(j) == ~HasKey(j, "t")
TruthyDict(d) == DOMAIN d # {}

\* A complete cache file as CacheManager.set writes it
CacheRecord(data, t) == [kind |-> "json", doc |-> [data |-> data, _timestamp |-> ToIso(t)]]
\* A file json.load cannot parse (truncated by open(.., 'w') or cut off mid-dump)
Unparsable == [kind |-> "partial"]

is_valid_ge(timestamp, t) ==
    IF timestamp = None THEN FALSE
    ELSE (t - Get(timestamp)) <= CACHE_DURATION_SECONDS

is_valid(timestamp, t) ==
    IF timestamp = None THEN FALSE
    ELSE (t - Get(timestamp)) < CACHE_DURATION_SECONDS

get_memory_miss(mc, mts, t) == <<None, FALSE>>

get_memory(mc, mts, t) ==
    IF is_valid(mts, t) THEN <<mc, TRUE>> ELSE <<None, FALSE>>

get_disk_any_age(file, t) ==
    IF file = None THEN <<None, FALSE>>
    ELSE LET c == Get(file) IN
         IF c.kind # "json" \/ ~IsDict(c.doc) THEN <<None, FALSE>>
         ELSE IF HasKey(c.doc, "data") THEN <<Some(c.doc.data), TRUE>>
         ELSE <<None, FALSE>>

get_disk_unstamped_ok(file, t) ==
    IF file = None THEN <<None, FALSE>>
    ELSE LET c == Get(file) IN
         IF c.kind # "json" \/ ~IsDict(c.doc) THEN <<None, FALSE>>
         ELSE LET raw == IF HasKey(c.doc, "_timestamp")
                         THEN c.doc["_timestamp"] ELSE Str("")
                  timestamp == FromIso(raw)
              IN  IF timestamp = None \/ is_valid(timestamp, t)
                  THEN IF HasKey(c.doc, "data")
                       THEN <<Some(c.doc.data), TRUE>>
                       ELSE <<None, FALSE>>
                  ELSE <<None, FALSE>>

get_disk(file, t) ==
    IF file = None THEN <<None, FALSE>>
    ELSE LET c == Get(file) IN
         IF c.kind # "json" THEN <<None, FALSE>>          \* json.load raises
         ELSE IF ~IsDict(c.doc) THEN <<None, FALSE>>      \* cached.get raises
         ELSE LET raw == IF HasKey(c.doc, "_timestamp")
                         THEN c.doc["_timestamp"] ELSE Str("")
                  timestamp == FromIso(raw)
              IN  IF timestamp = None THEN <<None, FALSE>>   \* fromisoformat raises
                  ELSE IF is_valid(timestamp, t)
                       THEN IF HasKey(c.doc, "data")
                            THEN <<Some(c.doc.data), TRUE>>
                            ELSE <<None, FALSE>>             \* cached['data'] raises
                       ELSE <<None, FALSE>>

\* Path.unlink(): raises FileNotFoundError on an absent file
unlink(file) == [raised |-> file = None, file |-> None]

clear_no_exists_check(file) == unlink(file)

\* CacheManager.clear, the part after the memory reset
clear(file) ==
    IF file # None THEN unlink(file) ELSE [raised |-> FALSE, file |-> file]

----------------------------------------------------------------------------
(* services/api_client.py *)

FALLBACK_DATA ==
    [data |-> List(<<"120686", "121468", "120335">>), hash |-> Str("fallback_v1")]

\* Bodies the upstream endpoint may answer with
UpstreamBodies ==
    { [data |-> List(<<"s1", "s2">>)],
      [data |-> List(<<"s3">>)],
      [data |-> List(<<>>)],
      [data |-> Str("oops")],
      [hash |-> Str("h")] }

\* None: the request, raise_for_status or response.json() raised
UpstreamOutcomes == {None} \cup {Some(b) : b \in UpstreamBodies}

accepts_any_data(data) == HasKey(data, "data")

accepts_truthy(data) == HasKey(data, "data") /\ Truthy(data.data)

\* data.get("data") and isinstance(data["data"], list)
accepts(data) ==
    /\ HasKey(data, "data")
    /\ Truthy(data.data)
    /\ data.data.t = "list"

cascade_reads_disk(force_refresh, file, t, tried) ==
    LET d == get_disk(file, t) IN
    IF d[1] # None /\ TruthyDict(Get(d[1]))
    THEN [data |-> d[1], source |-> "disk", tried |-> tried \o <<"disk">>]
    ELSE [data |-> Some(FALLBACK_DATA), source |-> "fallback",
          tried |-> tried \o <<"disk", "fallback">>]

\* The tiers after the live fetch did not deliver: disk (unless forced), then fallback
cascade(force_refresh, file, t, tried) ==
    IF ~force_refresh
    THEN LET d == get_disk(file, t) IN
         IF d[1] # None /\ TruthyDict(Get(d[1]))
         THEN [data |-> d[1], source |-> "disk", tried |-> tried \o <<"disk">>]
         ELSE [data |-> Some(FALLBACK_DATA), source |-> "fallback",
               tried |-> tried \o <<"disk", "fallback">>]
    ELSE [data |-> Some(FALLBACK_DATA), source |-> "fallback",
          tried |-> tried \o <<"fallback">>]

----------------------------------------------------------------------------
(* Time: the instants around the TTL boundary *)

Ages == (0 .. Slack) \cup ((CACHE_DURATION_SECONDS - Slack) .. (CACHE_DURATION_SECONDS + Slack))
StartTime == CACHE_DURATION_SECONDS + Slack
CacheInstants == {StartTime + a : a \in Ages}

\* What CACHE_FILE may hold when the process starts
InitCacheFiles ==
    {None, Some(Unparsable)}
    \cup {Some([kind |-> "json", doc |-> List(<<>>)])}
    \cup {Some([kind |-> "json", doc |-> [data |-> [data |-> List(<<"s0">>)]]])}
    \cup {Some([kind |-> "json", doc |-> [data |-> [data |-> List(<<"s0">>)],
                                          _timestamp |-> Str("not-a-date")]])}
    \cup {Some([kind |-> "json", doc |-> [_timestamp |-> ToIso(StartTime)]])}
    \cup {Some(CacheRecord([data |-> List(<<"s0">>)], StartTime - a)) : a \in Ages}

----------------------------------------------------------------------------
(* fetch_services_data tasks *)

Fetchers == {1, 2}

\* fresh0, clean0: the memory record was younger than the TTL, and no set had run
\* since the last clear, when the task started.  up: the answer of the live request.
\* written: how the disk write of CacheManager.set went ("ok", "open_fail",
\* "dump_fail").
IdleCall ==
    [force |-> FALSE, fresh0 |-> FALSE, clean0 |-> FALSE, up |-> None, stamp |-> None,
     tried |-> <<>>, data |-> None, source |-> "none", written |-> "none"]

\* CacheManager.set runs without suspension: while it writes, no other task runs
NoWriter == \A p \in Fetchers : fpc[p] # "writing"
\* A finished task hands its result to its caller before the event loop goes on
NoResult == \A p \in Fetchers : fpc[p] # "done"

InitCacheVars ==
    /\ memory_cache = None
    /\ memory_timestamp = None
    /\ fpc = [p \in Fetchers |-> "idle"]
    /\ fcall = [p \in Fetchers |-> IdleCall]
    /\ clear_result = None
    /\ clean = FALSE
    /\ reader = [saw |-> "nothing", during_set |-> FALSE]

\* fetch_services_data up to the await of the live request
FetchStart(p, force_refresh) ==
    /\ UNCHANGED <<fillVars, toolVars, fnVars>>
    /\ fpc[p] = "idle"
    /\ NoWriter /\ NoResult
    /\ LET m == get_memory(memory_cache, memory_timestamp, now)
           c == [IdleCall EXCEPT !.force = force_refresh, !.clean0 = clean,
                     !.fresh0 = /\ memory_timestamp # None
                                /\ now - Get(memory_timestamp) < CACHE_DURATION_SECONDS]
       IN  IF ~force_refresh /\ m[2]
           THEN /\ fpc' = [fpc EXCEPT ![p] = "done"]
                /\ fcall' = [fcall EXCEPT ![p] =
                       [c EXCEPT !.tried = <<"memory">>, !.data = m[1], !.source = "memory"]]
           ELSE /\ fpc' = [fpc EXCEPT ![p] = "awaiting"]
                /\ fcall' = [fcall EXCEPT ![p] =
                       [c EXCEPT !.tried = IF force_refresh THEN <<>> ELSE <<"memory">>]]
    /\ UNCHANGED <<now, memory_cache, memory_timestamp, cache_file, clear_result, clean, reader>>

\* The live request answers; on an accepted payload CacheManager.set stores it in
\* memory and opens CACHE_FILE for writing, otherwise the cascade continues
FetchResponse(p, outcome, opened) ==
    /\ UNCHANGED <<fillVars, toolVars, fnVars>>
    /\ fpc[p] = "awaiting"
    /\ NoWriter /\ NoResult
    /\ LET c == [fcall[p] EXCEPT !.up = Some(outcome), !.tried = @ \o <<"live">>]
       IN  IF outcome # None /\ accepts(Get(outcome))
           THEN /\ memory_cache' = outcome
                /\ memory_timestamp' = Some(now)
                /\ clean' = FALSE
                /\ IF opened
                   THEN /\ cache_file' = Some(Unparsable)
                        /\ fpc' = [fpc EXCEPT ![p] = "writing"]
                        /\ fcall' = [fcall EXCEPT ![p] = [c EXCEPT !.stamp = Some(now)]]
                   ELSE /\ cache_file' = cache_file
                        /\ fpc' = [fpc EXCEPT ![p] = "done"]
                        /\ fcall' = [fcall EXCEPT ![p] =
                               [c EXCEPT !.data = outcome, !.source = "live",
                                         !.written = "open_fail"]]
           ELSE /\ opened
                /\ LET r == cascade(c.force, cache_file, now, c.tried) IN
                   fcall' = [fcall EXCEPT ![p] =
                       [c EXCEPT !.data = r.data, !.source = r.source, !.tried = r.tried]]
                /\ fpc' = [fpc EXCEPT ![p] = "done"]
                /\ UNCHANGED <<memory_cache, memory_timestamp, cache_file, clean>>
    /\ UNCHANGED <<now, clear_result, reader>>

\* json.dump into the opened file completes or raises part-way; set returns and
\* fetch_services_data returns the live payload
SetDump(p, ok) ==
    /\ UNCHANGED <<fillVars, toolVars, fnVars>>
    /\ fpc[p] = "writing"
    /\ cache_file' = IF ok THEN Some(CacheRecord(Get(memory_cache), Get(fcall[p].stamp)))
                     ELSE cache_file
    /\ fpc' = [fpc EXCEPT ![p] = "done"]
    /\ fcall' = [fcall EXCEPT ![p] =
           [@ EXCEPT !.data = memory_cache, !.source = "live",
                     !.written = IF ok THEN "ok" ELSE "dump_fail"]]
    /\ UNCHANGED <<now, memory_cache, memory_timestamp, clear_result, clean, reader>>

\* The caller takes the (data, source) pair
FetchReturn(p) ==
    /\ UNCHANGED <<fillVars, toolVars, fnVars>>
    /\ fpc[p] = "done"
    /\ fpc' = [fpc EXCEPT ![p] = "idle"]
    /\ fcall' = [fcall EXCEPT ![p] = IdleCall]
    /\ UNCHANGED <<now, memory_cache, memory_timestamp, cache_file, clear_result, clean, reader>>

\* The clear_cache tool
ClearCache ==
    /\ UNCHANGED <<fillVars, toolVars, fnVars>>
    /\ NoWriter /\ NoResult
    /\ LET r == clear(cache_file) IN
       /\ cache_file' = IF r.raised THEN cache_file ELSE r.file
       /\ clear_result' = [success |-> ~r.raised, existed |-> cache_file # None]
    /\ memory_cache' = None
    /\ memory_timestamp' = None
    /\ clean' = TRUE
    /\ UNCHANGED <<now, fpc, fcall, reader>>

\* The process stops (also in the middle of a write) and starts again
RestartCache ==
    /\ UNCHANGED <<fillVars, toolVars, fnVars>>
    /\ NoResult
    /\ memory_cache' = None
    /\ memory_timestamp' = None
    /\ fpc' = [p \in Fetchers |-> "idle"]
    /\ fcall' = [p \in Fetchers |-> IdleCall]
    /\ clear_result' = None
    /\ UNCHANGED <<now, cache_file, clean, reader>>

TickCache ==
    /\ UNCHANGED <<fillVars, toolVars, fnVars>>
    /\ NoResult
    /\ \E t \in CacheInstants : t > now /\ now' = t
    /\ UNCHANGED cacheVars

\* Another reader of CACHE_FILE (a second server process on the same directory)
\* opens the file and reads what is on disk at that moment
ReaderRead ==
    /\ UNCHANGED <<fillVars, toolVars, fnVars>>
    /\ reader' = [saw |-> IF cache_file = None THEN "absent" ELSE Get(cache_file).kind,
                  during_set |-> ~NoWriter]
    /\ UNCHANGED <<now, memory_cache, memory_timestamp, cache_file, fpc, fcall,
                   clear_result, clean>>

----------------------------------------------------------------------------
(* Strings: sequences of characters, ordered by code point *)

UpperChars ==
    <<"A", "B", "C", "D", "E", "F", "G", "H", "I", "J", "K", "L", "M", "N", "O", "P", "Q", "R", "S", "T", "U", "V", "W", "X", "Y", "Z">>
LowerChars ==
    <<"a", "b", "c", "d", "e", "f", "g", "h", "i", "j", "k", "l", "m", "n", "o", "p", "q", "r", "s", "t", "u", "v", "w", "x", "y", "z">>
Chars ==
    <<" ", "0", "1", "2", "3", "4", "5", "6", "7", "8", "9">>
    \o UpperChars \o LowerChars \o <<"ß", "ä">>
Ord(c) == CHOOSE i \in 1 .. Len(Chars) : Chars[i] = c
\* str.lower()
LowerChar(c) ==
    IF \E i \in 1 .. Len(UpperChars) : UpperChars[i] = c
    THEN LowerChars[CHOOSE i \in 1 .. Len(UpperChars) : UpperChars[i] = c]
    ELSE c
Lower(str) == [i \in 1 .. Len(str) |-> LowerChar(str[i])]
\* sub in str
Contains(sub, str) ==
    \E i \in 0 .. (Len(str) - Len(sub)) : SubSeq(str, i + 1, i + Len(sub)) = sub
\* a < b for strings
RECURSIVE StrLess(_, _)
StrLess(a, b) ==
    IF b = <<>> THEN FALSE
    ELSE IF a = <<>> THEN TRUE
    ELSE IF Ord(a[1]) # Ord(b[1]) THEN Ord(a[1]) < Ord(b[1])
    ELSE StrLess(Tail(a), Tail(b))

----------------------------------------------------------------------------
(* services/form_logic.py: the request fingerprint *)

\* field_data is a dict: a sequence of <<key, value>> pairs in insertion order
Keys(field_data) == {field_data[i][1] : i \in 1 .. Len(field_data)}
Value(field_data, key) ==
    field_data[CHOOSE i \in 1 .. Len(field_data) : field_data[i][1] = key][2]

dumps_insertion_order(field_data) == field_data

\* json.dumps(field_data, sort_keys=True): the pairs in ascending key order
RECURSIVE dumps_sorted(_)
dumps_sorted(field_data) ==
    IF field_data = <<>> THEN <<>>
    ELSE LET m == CHOOSE i \in 1 .. Len(field_data) :
                      \A j \in 1 .. Len(field_data) :
                          j # i => StrLess(field_data[i][1], field_data[j][1])
             rest == [k \in 1 .. (Len(field_data) - 1) |->
                         IF k < m THEN field_data[k] ELSE field_data[k + 1]]
         IN  <<field_data[m]>> \o dumps_sorted(rest)

\* hashlib.md5(f"{form_url}:{data_str}").hexdigest(), taken as free of collisions
request_key(form_url, field_data) == <<form_url, dumps_sorted(field_data)>>

----------------------------------------------------------------------------
(* services/form_logic.py: the field matcher *)

COMMON_MAPPINGS ==
    << <<<<"m", "ä", "n", "n", "l", "i", "c", "h">>, <<<<"g", "e", "s", "c", "h", "l", "e", "c", "h", "t">>>> >>,
       <<<<"w", "e", "i", "b", "l", "i", "c", "h">>, <<<<"g", "e", "s", "c", "h", "l", "e", "c", "h", "t">>>> >>,
       <<<<"d", "i", "v", "e", "r", "s">>, <<<<"g", "e", "s", "c", "h", "l", "e", "c", "h", "t">>>> >>,
       <<<<"l", "e", "d", "i", "g">>, <<<<"f", "a", "m", "i", "l", "i", "e", "n", "s", "t", "a", "n", "d">>>> >>,
       <<<<"e", "i", "n", "z", "u", "g", "s", "d", "a", "t", "u", "m">>, <<<<"t", "a", "g", " ", "d", "e", "s", " ", "e", "i", "n", "z", "u", "g", "s">>>> >>,
       <<<<"p", "o", "s", "t", "l", "e", "i", "t", "z", "a", "h", "l">>, <<<<"p", "l", "z">>, <<"p", "o", "s", "t", "l", "e", "i", "t", "z", "a", "h", "l">>>> >>,
       <<<<"s", "t", "r", "a", "ß", "e">>, <<<<"s", "t", "r", "a", "s", "s", "e">>, <<"s", "t", "r", "a", "ß", "e">>>> >> >>

InMappings(k) == \E i \in 1 .. Len(COMMON_MAPPINGS) : COMMON_MAPPINGS[i][1] = k
Fragments(k) ==
    COMMON_MAPPINGS[CHOOSE i \in 1 .. Len(COMMON_MAPPINGS) : COMMON_MAPPINGS[i][1] = k][2]

S_yes == <<"y", "e", "s">>
S_true == <<"t", "r", "u", "e">>
S_1 == <<"1">>
S_on == <<"o", "n">>
S_x == <<"x">>

\* A widget is [name, label, checkbox]; label is None or Some(string)
LabelLow(w) == IF w.label = None THEN <<>> ELSE Lower(Get(w.label))

\* widget_map[key]: the last widget of that name
widget_map(widgets, key) ==
    IF \E i \in 1 .. Len(widgets) : widgets[i].name = key
    THEN Some(CHOOSE i \in 1 .. Len(widgets) :
                  /\ widgets[i].name = key
                  /\ \A j \in 1 .. Len(widgets) : widgets[j].name = key => j <= i)
    ELSE None

pass1_value_short(w, val) ==
    IF w.checkbox
    THEN IF Lower(val) \in {S_yes, S_true, S_x} THEN "Yes" ELSE "Off"
    ELSE val

\* Pass 1, lines 174-177: the value written to an exactly matched widget
pass1_value(w, val) ==
    IF w.checkbox
    THEN IF Lower(val) \in {S_yes, S_true, S_1, S_on, S_x} THEN "Yes" ELSE "Off"
    ELSE val

\* Pass 2, lines 195-200: does key k_low match widget w
fuzzy_match(k_low, w) ==
    LET name_low == Lower(w.name)
        label_low == LabelLow(w)
    IN  \/ Contains(k_low, name_low)
        \/ Contains(k_low, label_low)
        \/ /\ InMappings(k_low)
           /\ \E i \in 1 .. Len(Fragments(k_low)) :
                  \/ Contains(Fragments(k_low)[i], name_low)
                  \/ Contains(Fragments(k_low)[i], label_low)

fuzzy_find_last(widgets, key) ==
    IF \E i \in 1 .. Len(widgets) : fuzzy_match(Lower(key), widgets[i])
    THEN Some(CHOOSE i \in 1 .. Len(widgets) :
                  /\ fuzzy_match(Lower(key), widgets[i])
                  /\ \A j \in (i + 1) .. Len(widgets) : ~fuzzy_match(Lower(key), widgets[j]))
    ELSE None

\* Pass 2, lines 192-202: the first widget in document order that matches
fuzzy_find(widgets, key) ==
    IF \E i \in 1 .. Len(widgets) : fuzzy_match(Lower(key), widgets[i])
    THEN Some(CHOOSE i \in 1 .. Len(widgets) :
                  /\ fuzzy_match(Lower(key), widgets[i])
                  /\ \A j \in 1 .. (i - 1) : ~fuzzy_match(Lower(key), widgets[j]))
    ELSE None

\* Pass 2, lines 203-208: the value written to a fuzzily matched widget
pass2_value(w, val) ==
    IF w.checkbox
    THEN IF \/ Lower(val) \in {S_yes, S_true, S_x}
            \/ Contains(Lower(val), Lower(w.name))
         THEN "Yes" ELSE "Off"
    ELSE val

\* Lines 156-162: the widgets with a field name, in page and declaration order
named_widgets(doc) == SelectSeq(doc, LAMBDA w : w.name # <<>>)

\* Lines 165-213.  order2: the order in which Pass 2 visits the keys left over
\* (the iteration order of a set).  The result holds filled_count,
\* matched_fields_info, unmatched_keys and the field values of the widgets.
RECURSIVE pass2(_, _, _, _)
pass2(widgets, field_data, order2, acc) ==
    IF order2 = <<>> THEN acc
    ELSE LET key == Head(order2)
             hit == fuzzy_find(widgets, key)
         IN  IF hit = None
             THEN pass2(widgets, field_data, Tail(order2), acc)
             ELSE LET i == Get(hit) IN
                  pass2(widgets, field_data, Tail(order2),
                        [filled_count |-> acc.filled_count + 1,
                         matched |-> acc.matched \cup {<<key, widgets[i].name>>},
                         unmatched |-> acc.unmatched \ {key},
                         values |-> [acc.values EXCEPT ![i] =
                             Some(pass2_value(widgets[i], Value(field_data, key)))]])

pass1(widgets, field_data) ==
    LET exact == {k \in Keys(field_data) : widget_map(widgets, k) # None} IN
    [filled_count |-> Cardinality(exact),
     matched |-> {<<k, widgets[Get(widget_map(widgets, k))].name>> : k \in exact},
     unmatched |-> Keys(field_data) \ exact,
     values |-> [i \in 1 .. Len(widgets) |->
                    IF \E k \in exact : Get(widget_map(widgets, k)) = i
                    THEN Some(pass1_value(widgets[i], Value(field_data, widgets[i].name)))
                    ELSE None]]

match_and_fill(doc, field_data, order2) ==
    pass2(named_widgets(doc), field_data, order2, pass1(named_widgets(doc), field_data))

\* The orders Pass 2 may visit the keys in
RECURSIVE Orders(_)
Orders(keys) ==
    IF keys = {} THEN {<<>>}
    ELSE UNION {{<<k>> \o o : o \in Orders(keys \ {k})} : k \in keys}

----------------------------------------------------------------------------
(* Finite maps (Python dicts keyed by strings) *)

EmptyMap == [k \in {} |-> None]
Put(f, k, v) == [x \in (DOMAIN f) \cup {k} |-> IF x = k THEN v ELSE f[x]]
Restrict(f, S) == [x \in S |-> f[x]]

----------------------------------------------------------------------------
(* services/loop_protector.py: LoopProtector *)

\* A ledger record is <<timestamp, path, file_id>>
LedgerJson(h) == [kind |-> "json", doc |-> h]

\* v[0] raises (the record is an empty list) or fromisoformat(v[0]) does
Malformed(v) == v = <<>> \/ FromIso(v[1]) = None

load_keep_le(file, t) ==
    IF file = None THEN EmptyMap
    ELSE IF Get(file).kind # "json" THEN EmptyMap
    ELSE LET data == Get(file).doc IN
         IF \E k \in DOMAIN data : Malformed(data[k]) THEN EmptyMap
         ELSE Restrict(data, {k \in DOMAIN data :
                                 t - Get(FromIso(data[k][1])) <= LEDGER_MAX_AGE})

\* LoopProtector._load
load(file, t) ==
    IF file = None THEN EmptyMap
    ELSE IF Get(file).kind # "json" THEN EmptyMap                \* json.load raises
    ELSE LET data == Get(file).doc IN
         IF \E k \in DOMAIN data : Malformed(data[k])
         THEN EmptyMap                                            \* the except of line 21
         ELSE Restrict(data, {k \in DOMAIN data :
                                 t - Get(FromIso(data[k][1])) < LEDGER_MAX_AGE})

check_miss(h, key) == None

\* LoopProtector.check
check(h, key) ==
    IF key \in DOMAIN h THEN Some(<<h[key][2], h[key][3]>>) ELSE None

\* LoopProtector.save.  written: the disk write succeeds ("ok"), open raises
\* ("open_fail") or json.dump raises after the file was truncated ("dump_fail")
save_unguarded(h, file, key, path, file_id, t, written) ==
    LET h2 == Put(h, key, <<ToIso(t), path, file_id>>) IN
    [hashes |-> h2,
     file |-> CASE written = "ok" -> Some(LedgerJson(h2))
                [] written = "open_fail" -> file
                [] OTHER -> Some(Unparsable),
     raised |-> written # "ok"]

save_keep_first(h, file, key, path, file_id, t, written) ==
    LET h2 == IF key \in DOMAIN h THEN h ELSE Put(h, key, <<ToIso(t), path, file_id>>) IN
    [hashes |-> h2,
     file |-> CASE written = "ok" -> Some(LedgerJson(h2))
                [] written = "open_fail" -> file
                [] OTHER -> Some(Unparsable),
     raised |-> FALSE]

save_single(h, file, key, path, file_id, t, written) ==
    LET h2 == Put(EmptyMap, key, <<ToIso(t), path, file_id>>) IN
    [hashes |-> h2,
     file |-> CASE written = "ok" -> Some(LedgerJson(h2))
                [] written = "open_fail" -> file
                [] OTHER -> Some(Unparsable),
     raised |-> FALSE]

save(h, file, key, path, file_id, t, written) ==
    LET h2 == Put(h, key, <<ToIso(t), path, file_id>>) IN
    [hashes |-> h2,
     file |-> CASE written = "ok" -> Some(LedgerJson(h2))
                [] written = "open_fail" -> file
                [] OTHER -> Some(Unparsable),
     raised |-> FALSE]

WriteOutcomes == {"ok", "open_fail", "dump_fail"}

----------------------------------------------------------------------------
(* services/file_sync.py: RemoteFileSyncManager *)

register_file(m, file_id, file_path, file_size) ==
    Put(m, file_id, [path |-> file_path, size |-> file_size])

----------------------------------------------------------------------------
(* services/form_logic.py: perform_form_filling_logic *)

\* Lines 145-148.  A file name is a sequence of parts, the extension a part of
\* its own; strftime('%H%M%S') is the second of the day.
output_name(output_filename, t) ==
    LET given == IF output_filename = None \/ Get(output_filename) = <<>>
                 THEN <<"filled_", t % SECONDS_PER_DAY, ".pdf">>
                 ELSE Get(output_filename)
    IN  IF given[Len(given)] # ".pdf" THEN given \o <<".pdf">> ELSE given

\* Line 228: md5 of the name and the start time, taken as free of collisions
file_id_of(output_filename, total_start) == <<output_filename, total_start>>

\* What the form URLs serve: a PDF with its widgets, or something fitz cannot open
S_Name == <<"N", "a", "m", "e">>
S_Notiz == <<"N", "o", "t", "i", "z">>
S_PLZ == <<"P", "L", "Z">>
S_Postleitzahl == <<"P", "o", "s", "t", "l", "e", "i", "t", "z", "a", "h", "l">>
S_Max == <<"M", "a", "x">>
S_no == <<"n", "o">>
S_notiz == <<"n", "o", "t", "i", "z">>
S_zzz == <<"z", "z", "z">>

FormURLs == {"u1", "u2", "u3"}
DocumentAt(url) ==
    IF url = "u1"
    THEN Some(<< [name |-> S_Name, label |-> None, checkbox |-> FALSE],
                 [name |-> S_Notiz, label |-> None, checkbox |-> TRUE],
                 [name |-> S_PLZ, label |-> Some(S_Postleitzahl), checkbox |-> FALSE] >>)
    ELSE IF url = "u3"
    THEN Some(<< [name |-> S_Name, label |-> None, checkbox |-> FALSE] >>)
    ELSE None
\* st_size of the saved output: the form at u1 fills to 200 KiB, the one at u3 to
\* one byte more
output_size(url) == IF url = "u1" THEN SAFE_THRESHOLD ELSE SAFE_THRESHOLD + 1

\* The field_data and output_filename arguments of the calls
FieldDatas ==
    { <<>>,
      << <<S_zzz, S_1>> >>,
      << <<S_Name, S_Max>>, <<S_notiz, S_no>> >>,
      << <<S_notiz, S_no>>, <<S_Name, S_Max>> >> }
OutputNames == {None, Some(<<"a">>)}
\* The calls made: every field_data and output_filename on the form, one on the other URL
Requests ==
    {[url |-> "u1", data |-> d, outname |-> o] :
        d \in {<< <<S_zzz, S_1>> >>, << <<S_Name, S_Max>>, <<S_notiz, S_no>> >>}, o \in OutputNames}
    \cup {[url |-> "u1", data |-> d, outname |-> None] :
              d \in {<<>>, << <<S_notiz, S_no>>, <<S_Name, S_Max>> >>}}
    \cup {[url |-> "u2", data |-> << <<S_zzz, S_1>> >>, outname |-> None]}

Fillers == {1, 2}

\* instructions: what the result tells the caller to do next
NoResultYet ==
    [success |-> FALSE, status |-> "none", error |-> "none", saved_path |-> None,
     file_id |-> None, matched |-> {}, unmatched |-> {}, filled_count |-> 0,
     instructions |-> "none"]

\* hit0: what _protector.check returned at line 97.
\* prev: the call that had returned last when this one started.  rival: the status
\* a call with the same request key and without force_recompute returned while this
\* one was in flight.
\* fetched, wrote, handle, written: what the run did (the document fetch, the
\* output file, the document handle, the ledger's disk write).
\* steps: the steps the run has completed, in the order it completed them.
\* raised: the call ended with an exception instead of a result.
IdleFill ==
    [url |-> "none", data |-> <<>>, outname |-> None, force |-> FALSE,
     key |-> None, total_start |-> None, hit0 |-> None, prev |-> None,
     rival |-> "none", fetched |-> FALSE, wrote |-> FALSE, handle |-> "none",
     written |-> "none", steps |-> <<>>, raised |-> FALSE, result |-> NoResultYet]

\* fitz.open raised: lines 156-213 did not run
NoMatch == [filled_count |-> 0, matched |-> {}, unmatched |-> {}, values |-> <<>>]

Failure(msg) == [NoResultYet EXCEPT !.error = msg]

\* No result is waiting to be taken by its caller
NoFillResult == tool_call = None /\ \A p \in Fillers : ppc[p] # "done"

\* Line 98: lookup and not force_recompute
short_circuits_never(lookup, force_recompute) == FALSE

short_circuits(lookup, force_recompute) == lookup # None /\ ~force_recompute

\* Line 125: not field_data
no_field_data_unchecked(field_data) == FALSE

no_field_data(field_data) == field_data = <<>>

\* request_key and match_and_fill over the arguments of the calls, computed once.
\* FillResults holds, for each call, the results of match_and_fill over the orders
\* in which Pass 2 may visit the keys left by Pass 1.
Pass2Orders(url, field_data) ==
    Orders(pass1(named_widgets(Get(DocumentAt(url))), field_data).unmatched)
RequestKeys == [u \in FormURLs |-> [d \in FieldDatas |-> request_key(u, d)]]
FillResults ==
    [u \in FormURLs |-> [d \in FieldDatas |->
        IF DocumentAt(u) = None THEN {}
        ELSE {match_and_fill(Get(DocumentAt(u)), d, o) : o \in Pass2Orders(u, d)}]]

\* Lines 145-262, which run without suspension: the state after them and the
\* result.  saved: doc.save succeeds; m: what lines 165-213 did
Pipeline(c, t, saved, written, m) ==
    LET name == output_name(c.outname, t)
        doc == DocumentAt(c.url)
        same == [filled_forms |-> filled_forms, manifest |-> manifest,
                 hashes |-> hashes, ledger_file |-> ledger_file]
    IN  IF doc = None
        THEN [state |-> same,
              call |-> [c EXCEPT !.result = Failure("Internal error during form filling")]]
        ELSE IF ~saved
        THEN [state |-> same,
              call |-> [c EXCEPT !.handle = "open",
                                 !.steps = @ \o <<"match_and_fill">>,
                                 !.result = Failure("Internal error during form filling")]]
        ELSE LET file_id == file_id_of(name, Get(c.total_start))
                 sv == save(hashes, ledger_file, Get(c.key), name, file_id, t, written)
                 done == [filled_forms |-> Put(filled_forms, name,
                              [key |-> Get(c.key), size |-> output_size(c.url)]),
                          manifest |-> register_file(manifest, file_id, name,
                                                     output_size(c.url)),
                          hashes |-> sv.hashes, ledger_file |-> sv.file]
             IN  IF sv.raised
                 THEN [state |-> done,
                       call |-> [c EXCEPT !.wrote = TRUE, !.handle = "closed",
                                    !.written = written,
                                    !.steps = @ \o <<"match_and_fill", "save", "register">>,
                                    !.result = Failure("Internal error during form filling")]]
                 ELSE [state |-> done,
                       call |-> [c EXCEPT !.wrote = TRUE, !.handle = "closed",
                                    !.written = written,
                                    !.steps = @ \o <<"match_and_fill", "save", "register",
                                                     "record">>,
                                    !.result = [success |-> m.filled_count > 0,
                                                status |-> "COMPLETED",
                                                error |-> "none",
                                                saved_path |-> Some(name),
                                                file_id |-> Some(file_id),
                                                matched |-> m.matched,
                                                unmatched |-> m.unmatched,
                                                filled_count |-> m.filled_count,
                                                instructions |-> "retrieve or open"]]]

\* config.py lines 36-41: IS_REMOTE = IS_CLOUD or (not HAS_OPEN_CMD and IS_TEMP_DIR)
Envs ==
    {e \in [IS_CLOUD : BOOLEAN, IS_REMOTE : BOOLEAN] : e.IS_CLOUD => e.IS_REMOTE}
LocalEnv == [IS_CLOUD |-> FALSE, IS_REMOTE |-> FALSE]

\* No tool call has run and no function is under evaluation
InitNoCall ==
    /\ tool_call = None
    /\ fn_args = None
    /\ fn_result = None

InitFill ==
    /\ hashes = EmptyMap
    /\ ledger_file = None
    /\ forms_cache = {}
    /\ filled_forms = EmptyMap
    /\ manifest = EmptyMap
    /\ ppc = [p \in Fillers |-> "idle"]
    /\ pcall = [p \in Fillers |-> IdleFill]
    /\ ncalls = 0
    /\ last_fill = None
    /\ booted = TRUE

\* Lines 94-143: up to the await of the document download, and the whole run when
\* the ledger hits, field_data is empty or the document is cached already
FillStart(p, form_url, field_data, output_filename, force_recompute) ==
    /\ ppc[p] = "idle"
    /\ \A q \in Fillers : q < p => ppc[q] # "idle"
    /\ NoFillResult
    /\ ncalls < MaxCalls
    /\ ncalls' = ncalls + 1
    /\ last_fill' = None
    /\ LET key == RequestKeys[form_url][field_data]
           lookup == check(hashes, key)
           c == [IdleFill EXCEPT !.url = form_url, !.data = field_data,
                                 !.outname = output_filename, !.force = force_recompute,
                                 !.key = Some(key), !.total_start = Some(<<now, ncalls>>),
                                 !.hit0 = lookup, !.prev = last_fill,
                                 !.steps = <<"ledger_check">>]
       IN  IF short_circuits(lookup, force_recompute)
           THEN /\ ppc' = [ppc EXCEPT ![p] = "done"]
                /\ pcall' = [pcall EXCEPT ![p] = [c EXCEPT !.result =
                       [NoResultYet EXCEPT !.success = TRUE, !.status = "ALREADY_COMPLETED",
                                           !.saved_path = Some(Get(lookup)[1]),
                                           !.file_id = Some(Get(lookup)[2]),
                                           !.instructions = "DO NOT run this tool again"]]]
                /\ UNCHANGED <<hashes, ledger_file, forms_cache, filled_forms, manifest, booted>>
           ELSE IF no_field_data(field_data)
           THEN /\ ppc' = [ppc EXCEPT ![p] = "done"]
                /\ pcall' = [pcall EXCEPT ![p] =
                       [c EXCEPT !.result = Failure("No field data provided.")]]
                /\ UNCHANGED <<hashes, ledger_file, forms_cache, filled_forms, manifest, booted>>
           ELSE IF form_url \in forms_cache
           THEN \E saved \in BOOLEAN, written \in WriteOutcomes,
                   m \in FillResults[form_url][field_data] \cup {NoMatch} :
                LET r == Pipeline([c EXCEPT !.steps = @ \o <<"acquire_document">>],
                                  now, saved, written, m) IN
                /\ (m = NoMatch) = (DocumentAt(form_url) = None)
                /\ ppc' = [ppc EXCEPT ![p] = "done"]
                /\ pcall' = [pcall EXCEPT ![p] = r.call]
                /\ hashes' = r.state.hashes
                /\ ledger_file' = r.state.ledger_file
                /\ filled_forms' = r.state.filled_forms
                /\ manifest' = r.state.manifest
                /\ booted' = (booted /\ ~r.call.wrote)
                /\ UNCHANGED forms_cache
           ELSE /\ ppc' = [ppc EXCEPT ![p] = "downloading"]
                /\ pcall' = [pcall EXCEPT ![p] = [c EXCEPT !.fetched = TRUE]]
                /\ UNCHANGED <<hashes, ledger_file, forms_cache, filled_forms, manifest, booted>>
    /\ UNCHANGED <<now, cacheVars, toolVars, fnVars>>

\* Lines 136-262: the download answers; on success the document is cached and the
\* rest of the run follows without suspension
FillDownloaded(p, fetched) ==
    /\ ppc[p] = "downloading"
    /\ NoFillResult
    /\ last_fill' = None
    /\ ppc' = [ppc EXCEPT ![p] = "done"]
    /\ IF ~fetched
       THEN /\ pcall' = [pcall EXCEPT ![p] =
                   [@ EXCEPT !.result = Failure("Internal error during form filling")]]
            /\ UNCHANGED <<hashes, ledger_file, forms_cache, filled_forms, manifest, booted>>
       ELSE \E saved \in BOOLEAN, written \in WriteOutcomes,
               m \in FillResults[pcall[p].url][pcall[p].data] \cup {NoMatch} :
            LET r == Pipeline([pcall[p] EXCEPT !.steps = @ \o <<"acquire_document">>],
                              now, saved, written, m) IN
            /\ (m = NoMatch) = (DocumentAt(pcall[p].url) = None)
            /\ forms_cache' = forms_cache \cup {pcall[p].url}
            /\ pcall' = [pcall EXCEPT ![p] = r.call]
            /\ hashes' = r.state.hashes
            /\ ledger_file' = r.state.ledger_file
            /\ filled_forms' = r.state.filled_forms
            /\ manifest' = r.state.manifest
            /\ booted' = (booted /\ ~r.call.wrote)
    /\ UNCHANGED <<now, cacheVars, toolVars, fnVars, ncalls>>

\* The task is cancelled while it is suspended in the block of lines 135-139:
\* CancelledError is raised at the await of line 136, or at the exit of the
\* client after lines 138-139 have written the document (cached).  It is not an
\* Exception, so the handler of line 264 does not take it and the call raises.
FillCancelled(p, cached) ==
    /\ ppc[p] = "downloading"
    /\ NoFillResult
    /\ last_fill' = None
    /\ ppc' = [ppc EXCEPT ![p] = "done"]
    /\ pcall' = [pcall EXCEPT ![p] =
           [@ EXCEPT !.raised = TRUE,
                     !.steps = IF cached THEN @ \o <<"acquire_document">> ELSE @]]
    /\ forms_cache' = IF cached THEN forms_cache \cup {pcall[p].url} ELSE forms_cache
    /\ UNCHANGED <<now, cacheVars, toolVars, fnVars, hashes, ledger_file, filled_forms,
                   manifest, ncalls, booted>>

\* The caller takes the result
FillReturn(p) ==
    /\ ppc[p] = "done"
    /\ ppc' = [ppc EXCEPT ![p] = "idle"]
    /\ pcall' = [q \in Fillers |->
                    IF q = p THEN IdleFill
                    ELSE IF ppc[q] = "downloading" /\ pcall[q].key = pcall[p].key
                              /\ ~pcall[p].force
                              /\ pcall[p].result.status = "COMPLETED"
                    THEN [pcall[q] EXCEPT !.rival = "COMPLETED"]
                    ELSE pcall[q]]
    /\ last_fill' = Some([key |-> pcall[p].key,
                          status |-> pcall[p].result.status,
                          saved_path |-> pcall[p].result.saved_path,
                          file_id |-> pcall[p].result.file_id])
    /\ UNCHANGED <<now, cacheVars, toolVars, fnVars, hashes, ledger_file, forms_cache, filled_forms,
                   manifest, ncalls, booted>>

\* The process stops and starts again: lines 14-15 build the ledger and the manifest
Restart ==
    /\ NoFillResult
    /\ hashes' = load(ledger_file, now)
    /\ manifest' = EmptyMap
    /\ ppc' = [p \in Fillers |-> "idle"]
    /\ pcall' = [p \in Fillers |-> IdleFill]
    /\ last_fill' = None
    /\ booted' = TRUE
    /\ UNCHANGED <<now, cacheVars, toolVars, fnVars, ledger_file, forms_cache, filled_forms, ncalls>>

\* Time: the instants around the ledger's 24 hours
FillInstants == {0, 1, LEDGER_MAX_AGE}

\* Line 135: a download in flight ends within the client's timeout
Tick ==
    /\ NoFillResult
    /\ \E t \in FillInstants :
           /\ t > now
           /\ (\E p \in Fillers : ppc[p] = "downloading") => t - now <= DOWNLOAD_TIMEOUT
           /\ now' = t
    /\ booted' = FALSE
    /\ UNCHANGED <<cacheVars, toolVars, fnVars, hashes, ledger_file, forms_cache, filled_forms, manifest,
                   ppc, pcall, ncalls, last_fill>>

----------------------------------------------------------------------------
(* Specifications *)

\* The catalog cache, from every state CACHE_FILE may be in at start
InitCache ==
    /\ now = StartTime
    /\ InitCacheVars
    /\ cache_file \in InitCacheFiles
    /\ InitFill
    /\ env = LocalEnv
    /\ InitNoCall

NextCache ==
    \/ \E p \in Fetchers, f \in BOOLEAN : FetchStart(p, f)
    \/ \E p \in Fetchers, o \in UpstreamOutcomes, w \in BOOLEAN : FetchResponse(p, o, w)
    \/ \E p \in Fetchers, ok \in BOOLEAN : SetDump(p, ok)
    \/ \E p \in Fetchers : FetchReturn(p)
    \/ ClearCache
    \/ RestartCache
    \/ TickCache

SpecCache == InitCache /\ [][NextCache]_vars

NextCacheReader == NextCache \/ ReaderRead

SpecCacheReader == InitCache /\ [][NextCacheReader]_vars

\* The fill pipeline and its ledger, from a fresh installation
Init ==
    /\ now = 0
    /\ InitCacheVars
    /\ cache_file = None
    /\ InitFill
    /\ env = LocalEnv
    /\ InitNoCall

Next ==
    \/ \E p \in Fillers, r \in Requests, f \in BOOLEAN :
          FillStart(p, r.url, r.data, r.outname, f)
    \/ \E p \in Fillers, g \in BOOLEAN : FillDownloaded(p, g)
    \/ \E p \in Fillers : FillReturn(p)
    \/ Restart
    \/ Tick

Spec == Init /\ [][Next]_vars

----------------------------------------------------------------------------
(* The catalog cache: properties *)

\* The terms the properties are stated in
Finished(p) == fpc[p] = "done"
Entries(d) == IF HasKey(d, "data") /\ d.data.t = "list" THEN d.data.v ELSE <<>>
\* The live request failed: it raised, or its payload has no non-empty list under data
UpstreamFailed(c) ==
    /\ c.up # None
    /\ \/ Get(c.up) = None
       \/ Len(Entries(Get(Get(c.up)))) = 0
\* The disk record is complete: it parses and holds data and a timestamp
DiskWellFormed(file) ==
    /\ file # None
    /\ Get(file).kind = "json"
    /\ IsDict(Get(file).doc)
    /\ HasKey(Get(file).doc, "data")
    /\ HasKey(Get(file).doc, "_timestamp")
    /\ Get(file).doc["_timestamp"].t = "iso"
DiskAge(file, t) == t - Get(file).doc["_timestamp"].v
DiskValid(file, t) == DiskWellFormed(file) /\ DiskAge(file, t) < CACHE_DURATION_SECONDS

\* C3: every finished fetch_services_data returns a source among live, memory,
\* disk and fallback together with a payload that holds a non-empty list of
\* entries, whatever force_refresh, the memory tier, the disk file and the
\* upstream answer were.
C3_AlwaysSomeSnapshot ==
    \A p \in Fetchers : Finished(p) =>
        /\ fcall[p].source \in {"live", "memory", "disk", "fallback"}
        /\ fcall[p].data # None
        /\ Len(Entries(Get(fcall[p].data))) > 0

C3_Witness ==
    \E p \in Fetchers :
        /\ Finished(p)
        /\ fcall[p].force
        /\ fcall[p].up = Some(Some([data |-> List(<<>>)]))
        /\ DiskValid(cache_file, now)
        /\ fcall[p].source = "fallback"

\* C4: a non-forced fetch that found the memory tier invalid and whose live
\* request failed returns the disk payload tagged disk when the disk record is
\* present and younger than the TTL, and the fallback dataset tagged fallback
\* when the disk record is absent, corrupt or expired.
C4_DiskThenFallback ==
    \A p \in Fetchers :
        (Finished(p) /\ ~fcall[p].force /\ ~fcall[p].fresh0 /\ UpstreamFailed(fcall[p])) =>
            IF DiskValid(cache_file, now)
            THEN /\ fcall[p].source = "disk"
                 /\ fcall[p].data = Some(Get(cache_file).doc.data)
            ELSE /\ fcall[p].source = "fallback"
                 /\ fcall[p].data = Some(FALLBACK_DATA)

C4_Witness ==
    \E p \in Fetchers :
        /\ Finished(p) /\ ~fcall[p].force /\ UpstreamFailed(fcall[p])
        /\ DiskWellFormed(cache_file)
        /\ DiskAge(cache_file, now) = CACHE_DURATION_SECONDS - 1
        /\ fcall[p].source = "disk"

\* C5: the tiers are tried in the order memory, live, disk, fallback.  A
\* non-forced fetch that finds the memory record younger than the TTL returns it
\* tagged memory and tries nothing else; the live request is made only when the
\* memory tier was invalid or bypassed, the disk is read only after a failed live
\* request of a non-forced fetch, and the fallback is used only when the disk
\* tier was unusable or bypassed.
C5_StrictCascade ==
    \A p \in Fetchers : Finished(p) =>
        LET c == fcall[p]
            Tried(x) == \E i \in 1 .. Len(c.tried) : c.tried[i] = x
        IN  /\ (~c.force /\ c.fresh0) =>
                (c.source = "memory" /\ c.tried = <<"memory">> /\ c.data = memory_cache)
            /\ c.tried \in { <<"memory">>, <<"memory", "live">>, <<"live">>,
                             <<"memory", "live", "disk">>,
                             <<"memory", "live", "disk", "fallback">>,
                             <<"live", "fallback">> }
            /\ Tried("memory") <=> ~c.force
            /\ Tried("live") => (c.force \/ ~c.fresh0)
            /\ Tried("disk") => (~c.force /\ UpstreamFailed(c))
            /\ Tried("fallback") =>
                   (UpstreamFailed(c) /\ (c.force \/ ~DiskValid(cache_file, now)))

C5_Witness ==
    \E p \in Fetchers :
        /\ Finished(p) /\ ~fcall[p].force /\ fcall[p].fresh0
        /\ now - Get(memory_timestamp) = CACHE_DURATION_SECONDS - 1
        /\ fcall[p].source = "memory"

\* C6: a cache record is used exactly when now - storedAt < ttl.  A non-forced
\* fetch returns the memory record if and only if its age is below the TTL, and
\* after a failed live request it returns a complete disk record if and only if
\* that record's age is below the TTL; a record aged exactly ttl or ttl + 1, and
\* a record without a timestamp, is not used.
C6_TtlBoundary ==
    \A p \in Fetchers : Finished(p) =>
        LET c == fcall[p] IN
        /\ ~c.force => ((c.source = "memory") <=> c.fresh0)
        /\ (c.source = "memory") => memory_timestamp # None
        /\ (c.source = "disk") => DiskValid(cache_file, now)
        /\ (~c.force /\ ~c.fresh0 /\ UpstreamFailed(c) /\ DiskWellFormed(cache_file)) =>
               ((c.source = "disk") <=> (DiskAge(cache_file, now) < CACHE_DURATION_SECONDS))

C6_Witness ==
    \E p \in Fetchers :
        /\ Finished(p) /\ ~fcall[p].force /\ UpstreamFailed(fcall[p])
        /\ memory_timestamp # None
        /\ now - Get(memory_timestamp) = CACHE_DURATION_SECONDS
        /\ DiskWellFormed(cache_file)
        /\ DiskAge(cache_file, now) = CACHE_DURATION_SECONDS
        /\ fcall[p].source = "fallback"

\* C7: clear never raises, also when the disk file is already absent; as long
\* as no set has run since the last clear, the memory tier is empty and the disk
\* file is absent, and a non-forced fetch started and finished in that period
\* whose live request fails returns the fallback dataset.
C7_ClearEmptiesBothTiers ==
    /\ clear_result # None => clear_result.success
    /\ clean => (memory_cache = None /\ memory_timestamp = None /\ cache_file = None)
    /\ \A p \in Fetchers :
           (Finished(p) /\ ~fcall[p].force /\ fcall[p].clean0 /\ clean
                /\ UpstreamFailed(fcall[p])) =>
               (fcall[p].source = "fallback" /\ fcall[p].data = Some(FALLBACK_DATA))

C7_Witness ==
    /\ clear_result = [success |-> TRUE, existed |-> FALSE]
    /\ \E p \in Fetchers :
           /\ Finished(p) /\ ~fcall[p].force /\ fcall[p].clean0 /\ clean
           /\ UpstreamFailed(fcall[p])
           /\ fcall[p].source = "fallback"

\* C8: no reader of the cache file that reads while CacheManager.set is writing
\* it finds a truncated or partially written record.
C8_CacheWriteAtomic ==
    reader.during_set => reader.saw # "partial"

----------------------------------------------------------------------------
(* The fill pipeline and the ledger: properties *)

\* The terms the properties are stated in
FillFinished(p) == ppc[p] = "done"
\* The call started right after a call with the same request key had returned
FollowsSameRequest(c) ==
    /\ c.prev # None
    /\ Get(c.prev).key = c.key
    /\ ~c.force
    /\ c.data # <<>>
\* The call returns what the earlier one produced and writes nothing itself
ReturnsEarlierArtifact(c) ==
    /\ c.result.status = "ALREADY_COMPLETED"
    /\ c.result.file_id = Get(c.prev).file_id
    /\ c.result.saved_path = Get(c.prev).saved_path
    /\ ~c.wrote
\* The ledger file parses as the record set save writes
LedgerReadable(file) == file # None /\ Get(file).kind = "json"
RecordAge(file, k, t) == t - Get(FromIso(Get(file).doc[k][1]))

\* C1 as stated: the second of two calls in sequence with the same (form_url,
\* field_data), non-empty field_data and no force_recompute returns
\* ALREADY_COMPLETED with the file_id and saved_path of the first call and writes
\* no artifact of its own, whatever the first call returned.
C1_SecondCallAlwaysShortCircuits ==
    \A p \in Fillers :
        (FillFinished(p) /\ FollowsSameRequest(pcall[p])) =>
            ReturnsEarlierArtifact(pcall[p])

\* C1, amended: when the first of two calls in sequence with the same (form_url,
\* field_data) returned COMPLETED, the second call without force_recompute
\* returns ALREADY_COMPLETED with the first call's file_id and saved_path and
\* writes no artifact, and the first call's artifact is the one on disk under
\* that path.
C1_Idempotent ==
    \A p \in Fillers :
        (/\ FillFinished(p)
         /\ FollowsSameRequest(pcall[p])
         /\ Get(pcall[p].prev).status = "COMPLETED") =>
            /\ ReturnsEarlierArtifact(pcall[p])
            /\ Get(pcall[p].result.saved_path) \in DOMAIN filled_forms
            /\ filled_forms[Get(pcall[p].result.saved_path)].key = Get(pcall[p].key)

C1_Witness ==
    \E p \in Fillers :
        /\ FillFinished(p)
        /\ FollowsSameRequest(pcall[p])
        /\ Get(pcall[p].prev).status = "COMPLETED"
        /\ pcall[p].result.status = "ALREADY_COMPLETED"
        /\ Get(pcall[p].total_start)[1] = LEDGER_MAX_AGE

\* C2: when a call without force_recompute is suspended at the document fetch
\* while another call without force_recompute and with the same request key
\* returns COMPLETED, the ledger holds one record for the key and the suspended
\* call does not report COMPLETED as well.
C2_AtMostOneCompleted ==
    \A p \in Fillers :
        (FillFinished(p) /\ ~pcall[p].force /\ pcall[p].rival = "COMPLETED") =>
            /\ Get(pcall[p].key) \in DOMAIN hashes
            /\ pcall[p].result.status # "COMPLETED"

\* C9: a run that reaches LoopProtector.save holds, when it finishes, the record
\* <<now, path, file_id>> under its key in memory; when the disk write succeeded
\* the ledger file holds the full record set; and whether or not the disk write
\* succeeded the call returns COMPLETED with that path and file_id and the
\* artifact is on disk.
C9_SaveSwallowsWriteFailure ==
    \A p \in Fillers :
        (FillFinished(p) /\ pcall[p].wrote) =>
            LET c == pcall[p] IN
            /\ c.result.status = "COMPLETED"
            /\ Get(c.key) \in DOMAIN hashes
            /\ hashes[Get(c.key)] =
                   <<ToIso(now), Get(c.result.saved_path), Get(c.result.file_id)>>
            /\ c.written = "ok" => ledger_file = Some(LedgerJson(hashes))
            /\ Get(c.result.saved_path) \in DOMAIN filled_forms
            /\ filled_forms[Get(c.result.saved_path)].key = Get(c.key)

C9_Witness ==
    \E p \in Fillers :
        /\ FillFinished(p) /\ pcall[p].wrote /\ pcall[p].written = "dump_fail"
        /\ pcall[p].result.status = "COMPLETED"
        /\ pcall[p].force
        /\ pcall[p].prev # None
        /\ Get(pcall[p].prev).key = pcall[p].key
        /\ Get(pcall[p].prev).status = "COMPLETED"
        /\ ledger_file = Some(Unparsable)

\* C10: right after LoopProtector is built from a ledger file that save wrote,
\* every record of the file aged 24 hours or more is absent from the index and
\* every younger record is present with its path and file_id unchanged; a call
\* without force_recompute made then for a key with a younger record returns
\* ALREADY_COMPLETED with the path and file_id of the file.
C10_LoadEvictsAtOneDay ==
    (booted /\ LedgerReadable(ledger_file)) =>
        LET doc == Get(ledger_file).doc IN
        /\ \A k \in DOMAIN doc :
               IF RecordAge(ledger_file, k, now) >= LEDGER_MAX_AGE
               THEN k \notin DOMAIN hashes
               ELSE /\ k \in DOMAIN hashes
                    /\ hashes[k][2] = doc[k][2]
                    /\ hashes[k][3] = doc[k][3]
        /\ \A p \in Fillers :
               (/\ FillFinished(p) /\ ~pcall[p].force
                /\ Get(pcall[p].key) \in DOMAIN doc
                /\ RecordAge(ledger_file, Get(pcall[p].key), now) < LEDGER_MAX_AGE) =>
                   /\ pcall[p].result.status = "ALREADY_COMPLETED"
                   /\ pcall[p].result.saved_path = Some(doc[Get(pcall[p].key)][2])
                   /\ pcall[p].result.file_id = Some(doc[Get(pcall[p].key)][3])

C10_Witness ==
    /\ booted /\ LedgerReadable(ledger_file)
    /\ \E k1, k2 \in DOMAIN Get(ledger_file).doc :
           /\ RecordAge(ledger_file, k1, now) = LEDGER_MAX_AGE
           /\ k1 \notin DOMAIN hashes
           /\ RecordAge(ledger_file, k2, now) = LEDGER_MAX_AGE - 1
           /\ k2 \in DOMAIN hashes

C14_EveryKeyAccountedFor ==
    \A p \in Fillers :
        (FillFinished(p) /\ pcall[p].result.status = "COMPLETED") =>
            LET r == pcall[p].result
                matched_keys == {m[1] : m \in r.matched}
            IN  /\ matched_keys \cup r.unmatched = Keys(pcall[p].data)
                /\ matched_keys \cap r.unmatched = {}
                /\ Cardinality(r.matched) = Cardinality(matched_keys)
                /\ r.filled_count = Cardinality(matched_keys)
                /\ r.error = "none"
                /\ r.unmatched # {} => r.success

\* C15: a call with empty field_data returns a failure ("No field data
\* provided.") and neither COMPLETED nor ALREADY_COMPLETED; it does not fetch or
\* open the document and writes no output file, no manifest entry and no ledger
\* record, so the ledger never holds a record for an empty field_data.
C15_EmptyInputRejected ==
    /\ \A p \in Fillers :
           (FillFinished(p) /\ pcall[p].data = <<>>) =>
               /\ ~pcall[p].result.success
               /\ pcall[p].result.status = "none"
               /\ pcall[p].result.error = "No field data provided."
               /\ ~pcall[p].fetched
               /\ pcall[p].handle = "none"
               /\ ~pcall[p].wrote
    /\ \A u \in FormURLs :
           /\ RequestKeys[u][<<>>] \notin DOMAIN hashes
           /\ LedgerReadable(ledger_file) =>
                  RequestKeys[u][<<>>] \notin DOMAIN Get(ledger_file).doc
    /\ \A n \in DOMAIN filled_forms : filled_forms[n].key[2] # <<>>

C15_Witness ==
    \E p \in Fillers :
        /\ FillFinished(p) /\ pcall[p].data = <<>>
        /\ pcall[p].force
        /\ pcall[p].url \in forms_cache
        /\ pcall[p].result.error = "No field data provided."

\* C19: no run of perform_form_filling_logic ends, with a result or with an
\* error, while the document handle it opened is still open.
C19_HandleClosedOnEveryExit ==
    \A p \in Fillers : FillFinished(p) => pcall[p].handle # "open"

\* C20: a document source is fetched once: no call is fetching a source whose
\* copy is in the cache already, and no two calls are fetching the same source
\* at the same time.
C20_SourceFetchedOnce ==
    /\ \A p \in Fillers : ppc[p] = "downloading" => pcall[p].url \notin forms_cache
    /\ \A p, q \in Fillers :
           (p # q /\ ppc[p] = "downloading" /\ ppc[q] = "downloading") =>
               pcall[p].url # pcall[q].url

----------------------------------------------------------------------------
(* The request fingerprint: specification and property *)

\* Every other variable as in a fresh installation
InitIdle ==
    /\ now = 0
    /\ InitCacheVars
    /\ cache_file = None
    /\ InitFill
    /\ env = LocalEnv
    /\ tool_call = None

\* The dicts over a set of keys: every insertion order, every value
DictsOver(keys, values) ==
    UNION {{[i \in 1 .. Len(o) |-> <<o[i], v[o[i]]>>] : o \in Orders(K), v \in [K -> values]} :
              K \in SUBSET keys}
Content(field_data) == {field_data[i] : i \in 1 .. Len(field_data)}

\* Keys that differ in case and keys one of which is a prefix of the other
FingerprintKeys == {<<"a">>, <<"B">>, <<"a", "b">>}
FingerprintDicts == DictsOver(FingerprintKeys, {S_1, S_x})
\* A dict and another one over the same keys, in any insertion order
FingerprintArgs ==
    {a \in [form_url : FormURLs, field_data : FingerprintDicts, other : FingerprintDicts] :
        Keys(a.field_data) = Keys(a.other)}

InitFingerprint ==
    /\ InitIdle
    /\ fn_args \in {Some(a) : a \in FingerprintArgs}
    /\ fn_result = None

\* Lines 94-95 for field_data and for other, both with form_url
ComputeRequestKey ==
    /\ fn_result = None
    /\ fn_result' = Some(<<request_key(Get(fn_args).form_url, Get(fn_args).field_data),
                           request_key(Get(fn_args).form_url, Get(fn_args).other)>>)
    /\ UNCHANGED <<now, cacheVars, fillVars, toolVars, fn_args>>

NextFingerprint == ComputeRequestKey

SpecFingerprint == InitFingerprint /\ [][NextFingerprint]_vars

\* C12: for the same form_url, two field_data dicts with the same key/value
\* content get the same request key whatever the insertion order of their keys.
C12_FingerprintIgnoresKeyOrder ==
    (fn_result # None /\ Content(Get(fn_args).field_data) = Content(Get(fn_args).other)) =>
        Get(fn_result)[1] = Get(fn_result)[2]

C12_Witness ==
    /\ fn_result # None
    /\ Len(Get(fn_args).field_data) = 3
    /\ Content(Get(fn_args).field_data) = Content(Get(fn_args).other)
    /\ Get(fn_args).field_data[1] = Get(fn_args).other[3]
    /\ Get(fn_args).field_data[1][1] = <<"a", "b">>
    /\ Get(fn_result)[1] = Get(fn_result)[2]

----------------------------------------------------------------------------
(* The field matcher: specification and property *)

S_Ja == <<"J", "a">>
S_ja == <<"j", "a">>
S_X == <<"X">>

\* Documents of one or two widgets, text fields and checkboxes, and the dicts over
\* a key equal to a field name, a key that matches one in lower case only, and a
\* key contained in a field name
MatcherWidgets ==
    [name : {S_Notiz, S_Ja, S_Name}, label : {None}, checkbox : BOOLEAN]
MatcherDocs ==
    {<<w>> : w \in MatcherWidgets} \cup {<<w, x>> : w, x \in MatcherWidgets}
MatcherDicts == DictsOver({S_Notiz, S_notiz, S_ja}, {S_X, S_no}) \ {<<>>}

InitMatcher ==
    /\ InitIdle
    /\ fn_args \in {Some(a) : a \in [doc : MatcherDocs, field_data : MatcherDicts]}
    /\ fn_result = None

\* Lines 156-213 on the document and the field_data, Pass 2 visiting the keys left
\* over in any order
ComputeMatch ==
    /\ fn_result = None
    /\ \E o \in Orders(pass1(named_widgets(Get(fn_args).doc),
                              Get(fn_args).field_data).unmatched) :
           fn_result' = Some(match_and_fill(Get(fn_args).doc, Get(fn_args).field_data, o))
    /\ UNCHANGED <<now, cacheVars, fillVars, toolVars, fn_args>>

NextMatcher == ComputeMatch

SpecMatcher == InitMatcher /\ [][NextMatcher]_vars

\* The keys the matcher resolved to a widget named as widget i of the document
WritersOf(i) ==
    {k \in Keys(Get(fn_args).field_data) :
        <<k, Get(fn_args).doc[i].name>> \in Get(fn_result).matched}

\* C13: a checkbox that either pass has set from keys whose value is "X" holds
\* "Yes", and a checkbox that either pass has set from keys whose value is "no"
\* holds "Off", whatever the field name and the keys are.
C13_CheckboxXOnNoOff ==
    fn_result # None =>
        \A i \in 1 .. Len(Get(fn_args).doc) :
            LET w == Get(fn_args).doc[i]
                v == Get(fn_result).values[i]
                vals == {Value(Get(fn_args).field_data, k) : k \in WritersOf(i)}
            IN  (w.checkbox /\ v # None) =>
                    /\ vals = {S_X} => v = Some("Yes")
                    /\ vals = {S_no} => v = Some("Off")

----------------------------------------------------------------------------
(* Artifacts: download_filled_form_logic and delete_filled_form *)

\* Path.unlink
Remove(files, filename) == Restrict(files, DOMAIN files \ {filename})

NoToolResult ==
    [success |-> FALSE, error |-> "none", size_bytes |-> None, saved_path |-> None,
     warning |-> FALSE, field_preview |-> FALSE, content_base64 |-> None,
     instructions |-> "none"]

is_too_large_ge(file_size) == file_size >= SAFE_THRESHOLD

\* form_logic.py line 311
is_too_large(file_size) == file_size > SAFE_THRESHOLD

\* form_logic.py lines 275-345: the files after the call and the result.  The
\* bytes of a file are its record in filled_forms.
download_filled_form_logic(files, e, filename, delete_after_read, only_preview, ignore_size_limit) ==
    LET dar == IF only_preview THEN FALSE
               ELSE IF delete_after_read = None THEN e.IS_CLOUD
               ELSE Get(delete_after_read)
    IN  IF filename \notin DOMAIN files
        THEN [files |-> files, result |-> [NoToolResult EXCEPT !.error = "not found"]]
        ELSE LET file_size == files[filename].size
                 found == [NoToolResult EXCEPT !.success = TRUE,
                                               !.size_bytes = Some(file_size)]
             IN  IF ~e.IS_CLOUD /\ ~e.IS_REMOTE
                 THEN [files |-> files,
                       result |-> [found EXCEPT !.saved_path = Some(filename),
                                                !.instructions = "open_file_locally"]]
                 ELSE IF is_too_large(file_size) /\ ~ignore_size_limit /\ ~only_preview
                 THEN [files |-> files,
                       result |-> [found EXCEPT !.field_preview = TRUE, !.warning = TRUE,
                                                !.instructions = "resource"]]
                 ELSE [files |-> IF dar THEN Remove(files, filename) ELSE files,
                       result |-> [found EXCEPT
                                      !.field_preview = TRUE,
                                      !.content_base64 =
                                          IF only_preview THEN None ELSE Some(files[filename]),
                                      !.instructions =
                                          IF only_preview THEN "preview" ELSE "decode"]]

\* tools.py lines 286-293
delete_filled_form(files, filename) ==
    IF filename \in DOMAIN files
    THEN [files |-> Remove(files, filename),
          result |-> [NoToolResult EXCEPT !.success = TRUE]]
    ELSE [files |-> files, result |-> [NoToolResult EXCEPT !.error = "Not found."]]

\* The filename arguments: the two names the fills write and one they never write
FileNames == {<<"filled_", 0, ".pdf">>, <<"a", ".pdf">>, <<"b", ".pdf">>}

\* What the file was before the call
Before(filename) ==
    IF filename \in DOMAIN filled_forms THEN Some(filled_forms[filename]) ELSE None

DownloadFilledForm(filename, delete_after_read, only_preview, ignore_size_limit) ==
    /\ NoFillResult
    /\ LET r == download_filled_form_logic(filled_forms, env, filename, delete_after_read,
                                           only_preview, ignore_size_limit)
       IN  /\ filled_forms' = r.files
           /\ tool_call' = Some([tool |-> "download_filled_form", filename |-> filename,
                                 delete_after_read |-> delete_after_read,
                                 only_preview |-> only_preview,
                                 ignore_size_limit |-> ignore_size_limit,
                                 before |-> Before(filename), result |-> r.result])
    /\ UNCHANGED <<now, cacheVars, fnVars, env, hashes, ledger_file, forms_cache, manifest,
                   ppc, pcall, ncalls, last_fill, booted>>

DeleteFilledForm(filename) ==
    /\ NoFillResult
    /\ LET r == delete_filled_form(filled_forms, filename)
       IN  /\ filled_forms' = r.files
           /\ tool_call' = Some([tool |-> "delete_filled_form", filename |-> filename,
                                 delete_after_read |-> None, only_preview |-> FALSE,
                                 ignore_size_limit |-> FALSE,
                                 before |-> Before(filename), result |-> r.result])
    /\ UNCHANGED <<now, cacheVars, fnVars, env, hashes, ledger_file, forms_cache, manifest,
                   ppc, pcall, ncalls, last_fill, booted>>

\* The caller takes the result of the tool
ToolReturn ==
    /\ tool_call # None
    /\ tool_call' = None
    /\ UNCHANGED <<now, cacheVars, fillVars, fnVars, env>>

\* The fills that write the files: one under a generated name, one under a name
\* the caller chose
FileRequests ==
    {[url |-> "u1", data |-> << <<S_Name, S_Max>>, <<S_notiz, S_no>> >>, outname |-> None],
     [url |-> "u3", data |-> << <<S_Name, S_Max>>, <<S_notiz, S_no>> >>,
      outname |-> Some(<<"a">>)]}

InitFiles ==
    /\ now = 0
    /\ InitCacheVars
    /\ cache_file = None
    /\ InitFill
    /\ env \in Envs
    /\ InitNoCall

NextFiles ==
    \/ \E r \in FileRequests : FillStart(1, r.url, r.data, r.outname, FALSE)
    \/ \E g \in BOOLEAN : FillDownloaded(1, g)
    \/ FillReturn(1)
    \/ \E n \in FileNames, dar \in {None, Some(TRUE), Some(FALSE)}, op, isl \in BOOLEAN :
          DownloadFilledForm(n, dar, op, isl)
    \/ \E n \in FileNames : DeleteFilledForm(n)
    \/ ToolReturn
    \/ Restart

SpecFiles == InitFiles /\ [][NextFiles]_vars

----------------------------------------------------------------------------
(* Artifacts: properties *)

ToolRan(tool) == tool_call # None /\ Get(tool_call).tool = tool

\* C16: in remote or cloud mode a download of an existing file returns the bytes
\* when the size is at most 200 KiB (204800 bytes included) and, above that,
\* only the resource reference and no bytes; with ignore_size_limit it returns
\* the bytes at every size, and with only_preview the summary and no bytes.
C16_InlineUpToThreshold ==
    (/\ ToolRan("download_filled_form")
     /\ (env.IS_CLOUD \/ env.IS_REMOTE)
     /\ Get(tool_call).before # None) =>
        LET c == Get(tool_call)
            file == Get(c.before)
            r == c.result
        IN  /\ r.success
            /\ r.size_bytes = Some(file.size)
            /\ IF c.only_preview
               THEN r.content_base64 = None /\ r.field_preview /\ ~r.warning
               ELSE IF c.ignore_size_limit \/ file.size <= 204800
               THEN r.content_base64 = Some(file) /\ ~r.warning
               ELSE /\ r.content_base64 = None
                    /\ r.warning
                    /\ r.instructions = "resource"

C16_Witness ==
    /\ ToolRan("download_filled_form")
    /\ env.IS_REMOTE /\ ~env.IS_CLOUD
    /\ Get(tool_call).before # None
    /\ Get(Get(tool_call).before).size = 204800
    /\ ~Get(tool_call).only_preview /\ ~Get(tool_call).ignore_size_limit
    /\ Get(tool_call).result.content_base64 # None
    /\ \E n \in DOMAIN filled_forms : filled_forms[n].size = 204801

\* C17: delete_filled_form removes the file when it is present and reports no
\* error when the file is absent already, so a second delete of the same name
\* gives the same outcome as the first.
C17_DeleteAbsentIsNoError ==
    ToolRan("delete_filled_form") =>
        /\ Get(tool_call).filename \notin DOMAIN filled_forms
        /\ Get(tool_call).result.success
        /\ Get(tool_call).result.error = "none"

\* C18: every manifest entry names a file that is on disk: deleting an artifact
\* (delete_filled_form, or a download with delete_after_read) removes its
\* manifest entry.
C18_ManifestOnlyExistingFiles ==
    \A id \in DOMAIN manifest : manifest[id].path \in DOMAIN filled_forms

----------------------------------------------------------------------------
(* Fill runs: the order of the steps, errors and cancellation *)

NextRuns ==
    \/ Next
    \/ \E p \in Fillers, cached \in BOOLEAN : FillCancelled(p, cached)

SpecRuns == Init /\ [][NextRuns]_vars

\* Section 4.5 of the design: the steps of a run that goes all the way
StepOrder ==
    <<"ledger_check", "acquire_document", "match_and_fill", "save", "register", "record">>
IsPrefix(s, t) == Len(s) <= Len(t) /\ SubSeq(t, 1, Len(s)) = s

\* The call returns {"success": False, "error": ...}
StructuredFailure(c) == ~c.raised /\ ~c.result.success /\ c.result.error # "none"
\* The run ends without an artifact: an error, a rejected input or a cancellation
EndsWithoutArtifact(c) == c.result.status \notin {"COMPLETED", "ALREADY_COMPLETED"}
\* A step of the run of task p, and the step in which it ends
RunStep(p) == ppc'[p] # ppc[p] /\ ppc'[p] \in {"downloading", "done"}
RunEnds(p) == ppc[p] # "done" /\ ppc'[p] = "done"

----------------------------------------------------------------------------
(* Retrieval by artifact id: the resource berlin://files/sync/{file_id} *)

\* file_sync.py lines 30-40: the bytes of the file, or None
get_file_as_base64(files, file_path) ==
    IF file_path \notin DOMAIN files THEN None ELSE Some(files[file_path])

\* resources.py lines 35-40: the JSON object returned
sync_file_to_client(m, files, file_id) ==
    IF file_id \notin DOMAIN m
    THEN [error |-> "not found"]
    ELSE [success |-> TRUE, file_id |-> file_id,
          content_base64 |-> get_file_as_base64(files, m[file_id].path)]

\* The ids the fills register and ids of a name they never write
FileIds == {file_id_of(n, <<0, i>>) : n \in FileNames, i \in 0 .. MaxCalls}

SyncFileToClient(file_id) ==
    /\ NoFillResult
    /\ tool_call' = Some([tool |-> "sync_file_to_client", file_id |-> file_id,
                          registered |-> file_id \in DOMAIN manifest,
                          on_disk |-> /\ file_id \in DOMAIN manifest
                                      /\ manifest[file_id].path \in DOMAIN filled_forms,
                          result |-> sync_file_to_client(manifest, filled_forms, file_id)])
    /\ UNCHANGED <<now, cacheVars, fillVars, fnVars, env>>

NextRetrieval ==
    \/ NextFiles
    \/ \E id \in FileIds : SyncFileToClient(id)

SpecRetrieval == InitFiles /\ [][NextRetrieval]_vars

\* The answer is a failure that says the artifact was not found
NotFoundFailure(r) ==
    /\ HasKey(r, "error") /\ r.error = "not found"
    /\ HasKey(r, "success") => ~r.success

\* C22: a retrieval of an artifact whose file is missing is answered with a
\* failure that carries a not-found message: download_filled_form_logic for a
\* file name that is not on disk, and the sync resource for an id that is not in
\* the manifest and for an id that is in the manifest while its file has been
\* deleted.
C22_MissingArtifactIsNotFound ==
    /\ (ToolRan("download_filled_form") /\ Get(tool_call).before = None) =>
           NotFoundFailure(Get(tool_call).result)
    /\ (ToolRan("sync_file_to_client") /\ ~Get(tool_call).on_disk) =>
           NotFoundFailure(Get(tool_call).result)

\* C23: a call without force_recompute that finds a ledger record for its key
\* ends in the step in which it started, with ALREADY_COMPLETED, the path and id
\* of that record and the directive not to run the tool again; it fetches and
\* opens no document, writes no output file and leaves the document cache, the
\* output files, the manifest and the ledger (in memory and on disk) unchanged.
C23_ShortCircuitChangesNothing ==
    [][\A p \in Fillers :
          (RunStep(p) /\ ~pcall'[p].force /\ pcall'[p].hit0 # None) =>
              LET c == pcall'[p] IN
              /\ ppc[p] = "idle" /\ ppc'[p] = "done"
              /\ c.result.success
              /\ c.result.status = "ALREADY_COMPLETED"
              /\ c.result.saved_path = Some(Get(c.hit0)[1])
              /\ c.result.file_id = Some(Get(c.hit0)[2])
              /\ c.result.instructions = "DO NOT run this tool again"
              /\ ~c.fetched /\ c.handle = "none" /\ ~c.wrote
              /\ c.steps = <<"ledger_check">>
              /\ UNCHANGED <<hashes, ledger_file, forms_cache, filled_forms, manifest>>]_vars

C23_Witness ==
    \E p \in Fillers :
        /\ FillFinished(p) /\ ~pcall[p].force /\ pcall[p].hit0 # None
        /\ pcall[p].result.status = "ALREADY_COMPLETED"
        /\ pcall[p].result.saved_path = Some(<<"a", ".pdf">>)
        /\ ledger_file = Some(Unparsable)
        /\ manifest # EmptyMap

\* The request keys of the calls
LedgerKeys == {RequestKeys[r.url][r.data] : r \in Requests}
\* The run of task p reaches _protector.save for key k in this step
Records(p, k) == RunEnds(p) /\ pcall'[p].wrote /\ pcall'[p].key = Some(k)

\* C24: within the life of one LoopProtector, the result of check for a key
\* changes only in a step in which a run records that key, whatever other runs
\* do in between, and the record set and the ledger file change only in a step
\* in which a run records: a step that calls check and does not reach save
\* leaves both as they were.
C24_CheckIsReadStable ==
    [][\/ Restart
       \/ /\ \A k \in LedgerKeys :
                 check(hashes', k) # check(hashes, k) => \E p \in Fillers : Records(p, k)
          /\ (hashes' # hashes \/ ledger_file' # ledger_file) =>
                 \E p \in Fillers, k \in LedgerKeys : Records(p, k)
          /\ \A p \in Fillers :
                 (RunStep(p) /\ ppc[p] = "idle" /\ ~pcall'[p].wrote) =>
                     /\ UNCHANGED <<hashes, ledger_file>>
                     /\ pcall'[p].hit0 = check(hashes', Get(pcall'[p].key))]_vars

C24_Witness ==
    \E p, q \in Fillers :
        /\ ppc[p] = "downloading" /\ pcall[p].hit0 = None
        /\ FillFinished(q) /\ pcall[q].wrote /\ pcall[q].key # pcall[p].key
        /\ Get(pcall[q].key) \in DOMAIN hashes
        /\ check(hashes, Get(pcall[p].key)) = pcall[p].hit0

----------------------------------------------------------------------------
(* The catalog cache: acceptance, forced refresh and corrupt disk records *)

\* The response body holds a non-empty list under data
NonEmptyList(body) ==
    HasKey(body, "data") /\ body.data.t = "list" /\ Len(body.data.v) > 0
\* The steps of the fetch of task p: it starts, the live request answers, it ends
FetchStarts(p) == fpc[p] = "idle" /\ fpc'[p] # "idle"
FetchAnswered(p) == fpc[p] = "awaiting" /\ fpc'[p] \in {"writing", "done"}
FetchEnds(p) == fpc[p] # "done" /\ fpc'[p] = "done"

\* C25: the answer of the live request is accepted exactly when it is a body
\* with a non-empty list under data.  An accepted body becomes the memory record
\* with the time of acceptance, the fetch returns it tagged live, and the disk
\* file holds it with that time when the write of the file succeeded; a
\* non-forced fetch that starts while the memory record is younger than the TTL
\* returns the memory record tagged memory.  An answer that is an exception, or
\* a body whose data is missing, empty or not a list, leaves the memory record
\* and the disk file unchanged and the fetch goes on to the disk tier or the
\* fallback.
C25_AcceptsOnlyNonEmptyList ==
    [][\A p \in Fetchers :
          LET c == fcall'[p] IN
          /\ FetchAnswered(p) =>
                 IF Get(c.up) # None /\ NonEmptyList(Get(Get(c.up)))
                 THEN /\ memory_cache' = Get(c.up)
                      /\ memory_timestamp' = Some(now)
                      /\ fpc'[p] \in {"writing", "done"}
                 ELSE /\ UNCHANGED <<memory_cache, memory_timestamp, cache_file>>
                      /\ fpc'[p] = "done"
                      /\ c.source \in {"disk", "fallback"}
          /\ (FetchEnds(p) /\ c.up # None /\ Get(c.up) # None
                  /\ NonEmptyList(Get(Get(c.up)))) =>
                 /\ c.source = "live"
                 /\ c.data = Get(c.up)
                 /\ memory_cache' = c.data
                 /\ memory_timestamp' # None
                 /\ c.written = "ok" =>
                        cache_file' = Some(CacheRecord(Get(c.data), Get(memory_timestamp')))
                 /\ c.written = "open_fail" => cache_file' = cache_file
          /\ (FetchStarts(p) /\ ~c.force /\ memory_timestamp # None
                  /\ now - Get(memory_timestamp) < CACHE_DURATION_SECONDS) =>
                 /\ fpc'[p] = "done"
                 /\ c.source = "memory"
                 /\ c.data = memory_cache
                 /\ UNCHANGED <<memory_cache, memory_timestamp, cache_file>>]_vars

C25_Witness ==
    \E p \in Fetchers :
        /\ Finished(p) /\ ~fcall[p].force
        /\ fcall[p].source = "memory"
        /\ fcall[p].data = Some([data |-> List(<<"s3">>)])
        /\ now - Get(memory_timestamp) = CACHE_DURATION_SECONDS - 1
        /\ cache_file = Some(CacheRecord([data |-> List(<<"s3">>)], Get(memory_timestamp)))

\* C26: a fetch with force_refresh reads neither the memory tier nor the disk
\* tier: it goes to the live request whatever the memory record is, and when the
\* live request fails it returns the fallback dataset tagged fallback, also with
\* a memory record and a disk record younger than the TTL; it leaves the memory
\* record and the disk file as they were, and a non-forced fetch that starts
\* while the memory record is younger than the TTL returns it tagged memory.
C26_ForcedFetchBypassesTiers ==
    [][\A p \in Fetchers :
          LET c == fcall'[p] IN
          /\ (FetchStarts(p) /\ c.force) =>
                 /\ fpc'[p] = "awaiting"
                 /\ c.tried = <<>>
                 /\ UNCHANGED <<memory_cache, memory_timestamp, cache_file>>
          /\ (FetchAnswered(p) /\ c.force /\ UpstreamFailed(c)) =>
                 /\ fpc'[p] = "done"
                 /\ c.source = "fallback"
                 /\ c.data = Some(FALLBACK_DATA)
                 /\ c.tried = <<"live", "fallback">>
                 /\ UNCHANGED <<memory_cache, memory_timestamp, cache_file>>
          /\ (FetchStarts(p) /\ ~c.force /\ is_valid(memory_timestamp, now)) =>
                 /\ fpc'[p] = "done"
                 /\ c.source = "memory"
                 /\ c.data = memory_cache
                 /\ memory_cache' = memory_cache]_vars

C26_Witness ==
    \E p \in Fetchers :
        /\ Finished(p) /\ fcall[p].force /\ UpstreamFailed(fcall[p])
        /\ fcall[p].source = "fallback"
        /\ is_valid(memory_timestamp, now)
        /\ memory_cache = Some([data |-> List(<<"s1", "s2">>)])
        /\ DiskValid(cache_file, now)

\* The disk file is there and is not a complete record: it does not parse, is
\* not an object, or lacks the data field or a timestamp that parses
DiskCorrupt(file) == file # None /\ ~DiskWellFormed(file)
TriedDisk(c) == \E i \in 1 .. Len(c.tried) : c.tried[i] = "disk"

\* C27: for a disk file that does not parse, has no timestamp, has a timestamp
\* that does not parse or has no data field, get_disk returns (None, False), and
\* a fetch that reads such a file at the disk tier returns the fallback dataset
\* tagged fallback.
C27_CorruptDiskIsMiss ==
    DiskCorrupt(cache_file) =>
        /\ get_disk(cache_file, now) = <<None, FALSE>>
        /\ \A p \in Fetchers :
               (Finished(p) /\ TriedDisk(fcall[p])) =>
                   /\ fcall[p].source = "fallback"
                   /\ fcall[p].data = Some(FALLBACK_DATA)
                   /\ fcall[p].tried = <<"memory", "live", "disk", "fallback">>

C27_Witness ==
    \E p \in Fetchers :
        /\ Finished(p) /\ TriedDisk(fcall[p])
        /\ cache_file = Some([kind |-> "json", doc |-> [_timestamp |-> ToIso(StartTime)]])
        /\ now - StartTime < CACHE_DURATION_SECONDS
        /\ memory_timestamp # None
        /\ fcall[p].source = "fallback"

----------------------------------------------------------------------------
(* The field matcher pass by pass: specification and properties *)

S_On == <<"O", "n">>
S_Yes == <<"Y", "e", "s">>
S_TRUE == <<"T", "R", "U", "E">>

\* Widgets named Ja, Notiz and PLZ, text fields and checkboxes, without a label
\* or labelled Notiz, and a widget without a field name; documents of one or two
\* widgets in page and declaration order
PassWidgets ==
    [name : {S_Ja, S_Notiz, S_PLZ}, label : {None, Some(S_Notiz)}, checkbox : BOOLEAN]
    \cup {[name |-> <<>>, label |-> Some(S_Notiz), checkbox |-> FALSE]}
PassDocs ==
    {<<w>> : w \in PassWidgets} \cup {<<w, x>> : w, x \in PassWidgets}
\* A key equal to a field name, keys contained in a name or a label in lower case
\* only, a key with a synonym fragment, and a key that matches nothing
PassKeys == {S_Ja, S_ja, S_notiz, S_Postleitzahl, S_zzz}
PassValues == {S_X, S_1, S_On, S_Yes, S_TRUE, S_no, S_ja}
PassDicts ==
    {<< <<k, v>> >> : k \in PassKeys, v \in PassValues}
    \cup {<< <<a[1], a[3]>>, <<a[2], a[4]>> >> :
              a \in {b \in PassKeys \X PassKeys \X PassValues \X PassValues :
                         StrLess(b[1], b[2])}}

InitPasses ==
    /\ InitIdle
    /\ fn_args \in {Some(a) : a \in [doc : PassDocs, field_data : PassDicts]}
    /\ fn_result = None

\* Lines 156-181: the index of the named widgets and Pass 1
RunPass1 ==
    /\ fn_result = None
    /\ fn_result' = Some([pass1 |-> pass1(named_widgets(Get(fn_args).doc),
                                          Get(fn_args).field_data),
                          final |-> None])
    /\ UNCHANGED <<now, cacheVars, fillVars, toolVars, fn_args>>

\* Lines 183-213: Pass 2 over the keys Pass 1 left, in any order
RunPass2 ==
    /\ fn_result # None
    /\ Get(fn_result).final = None
    /\ \E o \in Orders(Get(fn_result).pass1.unmatched) :
           fn_result' = Some([Get(fn_result) EXCEPT !.final =
               Some(pass2(named_widgets(Get(fn_args).doc), Get(fn_args).field_data, o,
                          Get(fn_result).pass1))])
    /\ UNCHANGED <<now, cacheVars, fillVars, toolVars, fn_args>>

NextPasses == RunPass1 \/ RunPass2

SpecPasses == InitPasses /\ [][NextPasses]_vars

\* The terms the properties are stated in: the fields of the document (section 3
\* of the design: a field is a named widget), the pairs a result holds for a
\* key, and the truthy tokens of Pass 1
Fields == named_widgets(Get(fn_args).doc)
FieldData == Get(fn_args).field_data
PairsOf(r, k) == {m \in r.matched : m[1] = k}
TruthyTokens == {S_yes, S_true, S_1, S_on, S_x}
OnOff(b) == IF b THEN "Yes" ELSE "Off"
\* The keys that equal a field name, and the field Pass 1 assigns such a key to
ExactKeys == {k \in Keys(FieldData) : \E i \in 1 .. Len(Fields) : Fields[i].name = k}
FieldNamed(k) ==
    CHOOSE i \in 1 .. Len(Fields) :
        Fields[i].name = k /\ \A j \in (i + 1) .. Len(Fields) : Fields[j].name # k

\* C28: after Pass 1 every key that equals a field name (case-sensitively) is
\* matched to that name and is no longer among the unmatched keys, and the field
\* of that name (the last one declared, if several share it) holds the value:
\* for a checkbox "Yes" exactly when the lower-cased value is one of yes, true,
\* 1, on, x and "Off" for every other value, for any other field the value as
\* given.  Every other key is left unmatched by Pass 1.  Pass 2 adds no match
\* for a key that Pass 1 matched.
C28_Pass1ExactAndCoerced ==
    fn_result # None =>
        LET r1 == Get(fn_result).pass1
            final == Get(fn_result).final
        IN  /\ r1.unmatched = Keys(FieldData) \ ExactKeys
            /\ r1.filled_count = Cardinality(ExactKeys)
            /\ \A k \in Keys(FieldData) :
                   IF k \in ExactKeys
                   THEN /\ PairsOf(r1, k) = {<<k, k>>}
                        /\ r1.values[FieldNamed(k)] =
                               Some(IF Fields[FieldNamed(k)].checkbox
                                    THEN OnOff(Lower(Value(FieldData, k)) \in TruthyTokens)
                                    ELSE Value(FieldData, k))
                        /\ final # None => PairsOf(Get(final), k) = {<<k, k>>}
                   ELSE PairsOf(r1, k) = {}
            /\ \A i \in 1 .. Len(Fields) :
                   (\A k \in ExactKeys : FieldNamed(k) # i) => r1.values[i] = None

C28_Witness ==
    /\ fn_result # None /\ Get(fn_result).final # None
    /\ Len(Fields) = 2
    /\ Fields[1].name = S_Ja /\ Fields[1].checkbox
    /\ Fields[2].name = S_Ja /\ Fields[2].checkbox
    /\ FieldData = << <<S_Ja, S_On>>, <<S_ja, S_no>> >>
    /\ Get(fn_result).pass1.values = <<None, Some("Yes")>>
    /\ Get(fn_result).pass1.unmatched = {S_ja}

\* The fields whose lower-cased name or label contains the lower-cased key or a
\* synonym fragment of it (the test of lines 195-200)
Candidates(k) == {i \in 1 .. Len(Fields) : fuzzy_match(Lower(k), Fields[i])}
IsEarliest(i, S) == i \in S /\ \A j \in S : i <= j

\* C29: Pass 2 changes the match of no key that Pass 1 matched.  A key that
\* Pass 1 left unmatched is resolved to the earliest field in page and
\* declaration order whose lower-cased name or label contains the lower-cased
\* key or a synonym fragment of it, that field is written, and the key leaves
\* the unmatched keys; a key with no such field stays unmatched and gets no
\* match.  Pass 2 writes no other field.
C29_Pass2EarliestField ==
    (fn_result # None /\ Get(fn_result).final # None) =>
        LET r1 == Get(fn_result).pass1
            r2 == Get(Get(fn_result).final)
        IN  /\ \A k \in Keys(FieldData) \ r1.unmatched :
                   PairsOf(r2, k) = PairsOf(r1, k) /\ k \notin r2.unmatched
            /\ \A k \in r1.unmatched :
                   LET c == Candidates(k) IN
                   IF c = {}
                   THEN k \in r2.unmatched /\ PairsOf(r2, k) = {}
                   ELSE /\ k \notin r2.unmatched
                        /\ \E i \in c :
                               /\ IsEarliest(i, c)
                               /\ PairsOf(r2, k) = {<<k, Fields[i].name>>}
                               /\ r2.values[i] # None
            /\ r2.filled_count = Cardinality(Keys(FieldData) \ r2.unmatched)
            /\ \A i \in 1 .. Len(r2.values) :
                   (r2.values[i] # r1.values[i]) =>
                       \E k \in r1.unmatched : IsEarliest(i, Candidates(k))

C29_Witness ==
    /\ fn_result # None /\ Get(fn_result).final # None
    /\ Len(Get(fn_args).doc) = 2
    /\ Get(fn_args).doc[1] = [name |-> <<>>, label |-> Some(S_Notiz), checkbox |-> FALSE]
    /\ Fields = << [name |-> S_PLZ, label |-> Some(S_Notiz), checkbox |-> FALSE] >>
    /\ FieldData = << <<S_Postleitzahl, S_1>>, <<S_notiz, S_X>> >>
    /\ Get(Get(fn_result).final).matched = {<<S_Postleitzahl, S_PLZ>>, <<S_notiz, S_PLZ>>}
    /\ Get(Get(fn_result).final).values = <<Some(S_1)>>

\* Key k is written to field i: by Pass 1, or by Pass 2
WrittenTo(k, i) ==
    IF k \in ExactKeys THEN FieldNamed(k) = i ELSE IsEarliest(i, Candidates(k))

\* C30: a checkbox that Pass 2 resolved a key to, and to which no other key was
\* written, holds "Yes" exactly when the lower-cased value is one of yes, true,
\* 1, on, x or the lower-cased key is contained in the lower-cased field name,
\* and "Off" otherwise.
C30_Pass2CheckboxOn ==
    (fn_result # None /\ Get(fn_result).final # None) =>
        \A k \in Get(fn_result).pass1.unmatched, i \in 1 .. Len(Fields) :
            (/\ Fields[i].checkbox
             /\ WrittenTo(k, i)
             /\ \A k2 \in Keys(FieldData) \ {k} : ~WrittenTo(k2, i)) =>
                Get(Get(fn_result).final).values[i] =
                    Some(OnOff(\/ Lower(Value(FieldData, k)) \in TruthyTokens
                               \/ Contains(Lower(k), Lower(Fields[i].name))))

----------------------------------------------------------------------------
(* The output name: specification and property *)

\* Names of up to three parts: stems and the extension in lower and in upper case
NameParts == {"a", "b", ".pdf", ".PDF"}
NameArgs ==
    {None, Some(<<>>)}
    \cup {Some(<<x>>) : x \in NameParts}
    \cup {Some(<<x, y>>) : x, y \in NameParts}
    \cup {Some(<<x, y, z>>) : x, y, z \in NameParts}

InitNames ==
    /\ InitIdle
    /\ fn_args \in {Some([output_filename |-> o, t |-> t]) :
                       o \in NameArgs, t \in {0, 1, SECONDS_PER_DAY + 1}}
    /\ fn_result = None

\* Lines 145-148 on the name given, and once more on the name they produced
NormalizeName ==
    /\ fn_result = None
    /\ LET name == output_name(Get(fn_args).output_filename, Get(fn_args).t) IN
       fn_result' = Some([name |-> name,
                          again |-> output_name(Some(name), Get(fn_args).t)])
    /\ UNCHANGED <<now, cacheVars, fillVars, toolVars, fn_args>>

NextNames == NormalizeName

SpecNames == InitNames /\ [][NextNames]_vars

\* The parts of a name that are the extension, in either case
IsExtension(part) == part \in {".pdf", ".PDF"}
ExtensionCount(name) == Cardinality({i \in 1 .. Len(name) : IsExtension(name[i])})
NameGiven(a) == a.output_filename # None /\ Get(a.output_filename) # <<>>

\* C31: the normalized output name ends in ".pdf" and normalizing it again
\* changes nothing; a given name holds the extension, in either case, exactly
\* once after normalization: when it does not end in ".pdf" it gets ".pdf"
\* appended and when it does it is unchanged; a name that was not given is
\* "filled_", the time of day and ".pdf".
C31_ExtensionExactlyOnce ==
    fn_result # None =>
        LET a == Get(fn_args)
            name == Get(fn_result).name
        IN  /\ name[Len(name)] = ".pdf"
            /\ Get(fn_result).again = name
            /\ IF NameGiven(a)
               THEN LET given == Get(a.output_filename) IN
                    /\ ExtensionCount(name) = 1
                    /\ IF given[Len(given)] = ".pdf" THEN name = given
                       ELSE name = given \o <<".pdf">>
               ELSE name = <<"filled_", a.t % SECONDS_PER_DAY, ".pdf">>

----------------------------------------------------------------------------
(* The fill ledger and the artifacts: further properties *)

\* No key of the call's field_data matches a field of its document
NothingMatches(c) == \A m \in FillResults[c.url][c.data] : m.filled_count = 0

\* C32: a run that reaches its result with filled_count 0 reports success false
\* and leaves no ledger record for its key, and no call without force_recompute
\* whose field_data matches no field of its document reports success.
C32_NoMatchNeverSucceeds ==
    \A p \in Fillers : FillFinished(p) =>
        LET c == pcall[p] IN
        /\ (c.result.status = "COMPLETED" /\ c.result.filled_count = 0) =>
               /\ ~c.result.success
               /\ Get(c.key) \notin DOMAIN hashes
        /\ (~c.force /\ ~c.raised /\ NothingMatches(c)) => ~c.result.success

\* The fills and the artifact tools over the ledger's 24 hours
NextArtifacts ==
    \/ NextFiles
    \/ Tick

SpecArtifacts == InitFiles /\ [][NextArtifacts]_vars

\* The call returned the artifact of an earlier run
ShortCircuited(c) == c.result.status = "ALREADY_COMPLETED"
\* Seconds since the ledger record of the key was written
HeldAge(k) == now - Get(FromIso(hashes[k][1]))

\* C33: when a call returns ALREADY_COMPLETED, the file at the returned
\* saved_path is on disk and the ledger record it was answered from is less than
\* 24 hours old.
C33_ShortCircuitOnlyToLiveArtifact ==
    \A p \in Fillers :
        (FillFinished(p) /\ ShortCircuited(pcall[p])) =>
            /\ Get(pcall[p].result.saved_path) \in DOMAIN filled_forms
            /\ HeldAge(Get(pcall[p].key)) < LEDGER_MAX_AGE

\* The output path of the ledger record of key k
RecordPath(k) == hashes[k][2]

\* C34: the file at the path of every ledger record is the output of the fill
\* with the record's key, and no two ledger records hold the same path.
C34_RecordsOwnTheirArtifact ==
    /\ \A k \in DOMAIN hashes :
           /\ RecordPath(k) \in DOMAIN filled_forms
           /\ filled_forms[RecordPath(k)].key = k
    /\ \A k1, k2 \in DOMAIN hashes : k1 # k2 => RecordPath(k1) # RecordPath(k2)

----------------------------------------------------------------------------
(* The ledger file of an earlier process: specification and property *)

\* The record an earlier process wrote at time 0 for the first request, and
\* what else the file may hold: nothing, a second record of that process, a
\* record with a timestamp that fromisoformat rejects, an empty record
GoodKey == RequestKeys["u1"][<< <<S_Name, S_Max>>, <<S_notiz, S_no>> >>]
OtherKey == RequestKeys["u3"][<< <<S_Name, S_Max>>, <<S_notiz, S_no>> >>]
GoodRecord == <<ToIso(0), <<"a", ".pdf">>, file_id_of(<<"a", ".pdf">>, <<0, 0>>)>>
OtherRecords ==
    {<<ToIso(0), <<"b", ".pdf">>, file_id_of(<<"b", ".pdf">>, <<0, 0>>)>>,
     <<Str("yesterday"), <<"b", ".pdf">>, file_id_of(<<"b", ".pdf">>, <<0, 0>>)>>,
     <<>>}
EarlierLedgers ==
    {Put(EmptyMap, GoodKey, GoodRecord)}
    \cup {Put(Put(EmptyMap, GoodKey, GoodRecord), OtherKey, r) : r \in OtherRecords}

\* Lines 14-15 at the start of a process that finds the file of an earlier one
InitLedger ==
    /\ now = 0
    /\ InitCacheVars
    /\ cache_file = None
    /\ ledger_file \in {Some(LedgerJson(h)) : h \in EarlierLedgers}
    /\ hashes = load(ledger_file, now)
    /\ forms_cache = {"u1"}
    /\ filled_forms = Put(EmptyMap, <<"a", ".pdf">>,
                          [key |-> GoodKey, size |-> output_size("u1")])
    /\ manifest = EmptyMap
    /\ ppc = [p \in Fillers |-> "idle"]
    /\ pcall = [p \in Fillers |-> IdleFill]
    /\ ncalls = 0
    /\ last_fill = None
    /\ booted = TRUE
    /\ env = LocalEnv
    /\ InitNoCall

NextLedger == Next

SpecLedger == InitLedger /\ [][NextLedger]_vars

\* The records of a readable ledger file that are well-formed and younger than
\* 24 hours at time t
LiveRecords(file, t) ==
    {k \in DOMAIN Get(file).doc :
        /\ ~Malformed(Get(file).doc[k])
        /\ RecordAge(file, k, t) < LEDGER_MAX_AGE}
\* What LoopProtector holds right after it was built keeps the live records
LoadKeepsLive ==
    (booted /\ LedgerReadable(ledger_file)) =>
        \A k \in LiveRecords(ledger_file, now) :
            k \in DOMAIN hashes /\ hashes[k] = Get(ledger_file).doc[k]
\* A save that rewrites the file keeps the live records of the file it replaces
SaveKeepsLive ==
    (/\ ledger_file' # ledger_file
     /\ LedgerReadable(ledger_file) /\ LedgerReadable(ledger_file')) =>
        \A k \in LiveRecords(ledger_file, now) : k \in DOMAIN Get(ledger_file').doc

\* C35: LoopProtector, when built, holds every record of the ledger file that is
\* well-formed and younger than 24 hours, whatever other records the file holds,
\* and every save that rewrites the file keeps those records in it.
C35_LoadKeepsWellFormedRecords ==
    [][LoadKeepsLive' /\ SaveKeepsLive]_vars

----------------------------------------------------------------------------
(* The artifact ids the fill results hand out *)

\* form_logic.py lines 119 and 233-236: the id the result directs the caller to
\* read through berlin://files/sync/{file_id}, on a remote server
sync_resource(e, file_id) == IF e.IS_REMOTE THEN file_id ELSE None

\* The call returned an artifact
ReturnsArtifact(c) == c.result.status \in {"COMPLETED", "ALREADY_COMPLETED"}

\* C36: when a fill returns COMPLETED or ALREADY_COMPLETED with a sync resource
\* and the file at the returned saved_path is on disk, the id of the resource
\* is in the manifest and the sync resource answers it with the bytes of that
\* file.
C36_ReturnedIdResolves ==
    \A p \in Fillers :
        LET c == pcall[p]
            id == sync_resource(env, c.result.file_id)
        IN  (/\ FillFinished(p) /\ ReturnsArtifact(c)
             /\ id # None
             /\ Get(c.result.saved_path) \in DOMAIN filled_forms) =>
                /\ Get(id) \in DOMAIN manifest
                /\ sync_file_to_client(manifest, filled_forms, Get(id)) =
                       [success |-> TRUE, file_id |-> Get(id),
                        content_base64 |-> Some(filled_forms[Get(c.result.saved_path)])]

====
